---- MODULE Spec2Model ----
(***************************************************************************)
(* Model of the flipper-analyzer pipeline: decode -> identify -> classify. *)
(*                                                                         *)
(* A capture (SubFileData: frequency, raw_pulses) is drawn in Init; the    *)
(* actions are the calls classify_signal makes, in its order:              *)
(* identify_protocol, decode_signal, _analyze_classification_              *)
(* characteristics and _apply_classification_rules.                        *)
(*                                                                         *)
(* Python floats are IEEE doubles.  The scores the program adds up are     *)
(* multiples of 0.05 whose double sums are not always the double nearest   *)
(* to the decimal sum (0.1 + 0.2 is 0.30000000000000004).  A score is      *)
(* encoded as 10*h + d, h the value in hundredths and d in {-1, 0, 1}      *)
(* ordering the doubles that round to the same hundredth (d = 0 is the     *)
(* double nearest to h/100).  Durations are integers; a median is kept     *)
(* doubled so that the half of an even-length median stays an integer.     *)
(***************************************************************************)
EXTENDS Integers, Sequences, FiniteSets, TLC

\* ------------------------------------------------------------------ bounds
\* Pulse trains are enumerated exhaustively up to MaxShortLen pulses over the
\* durations 1..MaxDur; longer trains come from LongTrains below.
MaxShortLen == 3
MaxDur == 3
\* The helpers are called on every bit sequence of up to MaxBits bits.
MaxBits == 10
\* Files are enumerated up to MaxLines lines.
MaxLines == 3

\* ----------------------------------------------------------------- helpers
Range(s) == {s[i] : i \in 1..Len(s)}

Rep(cell, k) == [i \in 1..(k * Len(cell)) |-> cell[((i - 1) % Len(cell)) + 1]]

MinOf(S) == CHOOSE x \in S : \A y \in S : x <= y

Abs(x) == IF x < 0 THEN -x ELSE x

\* The k-th smallest element of s (1-based), as sorting s would place it.
KthSmallest(s, k) ==
    CHOOSE v \in Range(s) :
        /\ Cardinality({i \in 1..Len(s) : s[i] < v}) < k
        /\ Cardinality({i \in 1..Len(s) : s[i] <= v}) >= k

\* np.median, doubled: the middle element, or the mean of the two middle ones.
Median2(s) ==
    IF Len(s) % 2 = 1
    THEN 2 * KthSmallest(s, (Len(s) + 1) \div 2)
    ELSE KthSmallest(s, Len(s) \div 2) + KthSmallest(s, Len(s) \div 2 + 1)

\* ----------------------------------------------------------------- decoder
\* A sample is <<duration, level>>.
apply_threshold(pulses) ==
    IF pulses = <<>> THEN <<>>
    ELSE LET threshold2 == Median2(pulses)
         IN [i \in 1..Len(pulses) |->
                <<pulses[i], IF 2 * pulses[i] > threshold2 THEN 1 ELSE 0>>]

\* decode_manchester reading overlapping pairs (advancing by 1).
decode_manchester_Sliding(signal) ==
    IF Len(signal) < 2 THEN <<>>
    ELSE LET pairs == [k \in 1..(Len(signal) - 1) |-> k]
             Transition(k) == signal[k][2] # signal[k + 1][2]
             kept == SelectSeq(pairs, Transition)
         IN [j \in 1..Len(kept) |->
                IF signal[kept[j]][2] = 1 THEN 1 ELSE 0]

decode_manchester(signal) ==
    IF Len(signal) < 2 THEN <<>>
    ELSE LET pairs == [k \in 1..(Len(signal) \div 2) |-> k]
             Transition(k) == signal[2 * k - 1][2] # signal[2 * k][2]
             kept == SelectSeq(pairs, Transition)
         IN [j \in 1..Len(kept) |->
                IF signal[2 * kept[j] - 1][2] = 1 THEN 1 ELSE 0]

\* decode_ook taking its threshold from the level-1 samples only.
decode_ook_FromHighs(signal) ==
    IF signal = <<>> THEN <<>>
    ELSE LET High(sample) == sample[2] = 1
             highs == SelectSeq(signal, High)
             durations == [i \in 1..Len(highs) |-> highs[i][1]]
         IN IF highs = <<>> THEN <<>>
            ELSE LET threshold2 == Median2(durations)
                 IN [j \in 1..Len(highs) |->
                        IF 2 * highs[j][1] > threshold2 THEN 1 ELSE 0]

\* decode_ook with short_threshold = None: the threshold is the median of
\* the durations of ALL samples of the signal.
decode_ook(signal) ==
    IF signal = <<>> THEN <<>>
    ELSE LET durations == [i \in 1..Len(signal) |-> signal[i][1]]
             short_threshold2 == Median2(durations)
             High(sample) == sample[2] = 1
             highs == SelectSeq(signal, High)
         IN [j \in 1..Len(highs) |->
                IF 2 * highs[j][1] > short_threshold2 THEN 1 ELSE 0]

\* decode_pwm emitting a bit for every sample, whatever its level.
decode_pwm_EverySample(signal) ==
    IF signal = <<>> THEN <<>>
    ELSE LET durations == [j \in 1..Len(signal) |-> signal[j][1]]
             threshold2 == Median2(durations)
         IN [j \in 1..Len(signal) |->
                IF 2 * signal[j][1] > threshold2 THEN 1 ELSE 0]

\* decode_pwm: the threshold is the median of the level-1 durations only.
decode_pwm(signal) ==
    IF signal = <<>> THEN <<>>
    ELSE LET High(sample) == sample[2] = 1
             highs == SelectSeq(signal, High)
             high_pulses == [j \in 1..Len(highs) |-> highs[j][1]]
         IN IF high_pulses = <<>> THEN <<>>
            ELSE LET threshold2 == Median2(high_pulses)
                 IN [j \in 1..Len(highs) |->
                        IF 2 * highs[j][1] > threshold2 THEN 1 ELSE 0]

DefaultPreamble == <<1, 0, 1, 0, 1, 0, 1, 0>>

\* find_preamble whose search stops one index short of the last window.
find_preamble_Short(bits, preamble_pattern) ==
    IF Len(bits) < Len(preamble_pattern) THEN -1
    ELSE LET hits == {i \in 0..(Len(bits) - Len(preamble_pattern) - 1) :
                        SubSeq(bits, i + 1, i + Len(preamble_pattern))
                            = preamble_pattern}
         IN IF hits = {} THEN -1 ELSE MinOf(hits)

\* find_preamble: 0-based index of the first match, -1 if none.
find_preamble(bits, preamble_pattern) ==
    IF Len(bits) < Len(preamble_pattern) THEN -1
    ELSE LET hits == {i \in 0..(Len(bits) - Len(preamble_pattern)) :
                        SubSeq(bits, i + 1, i + Len(preamble_pattern))
                            = preamble_pattern}
         IN IF hits = {} THEN -1 ELSE MinOf(hits)

\* extract_data_bits: bits[preamble_end : min(preamble_end + data_length, len)].
extract_data_bits(bits, preamble_end, data_length) ==
    LET start_idx == preamble_end
        end_idx == IF start_idx + data_length < Len(bits)
                   THEN start_idx + data_length ELSE Len(bits)
    IN SubSeq(bits, start_idx + 1, end_idx)

HexDigits ==
    <<"0", "1", "2", "3", "4", "5", "6", "7",
      "8", "9", "A", "B", "C", "D", "E", "F">>

\* bits_to_hex reading each nibble with its last bit as the most significant.
bits_to_hex_Reversed(bits) ==
    IF bits = <<>> THEN [hex |-> <<>>, bits |-> <<>>]
    ELSE LET padded == bits \o Rep(<<0>>, (4 - (Len(bits) % 4)) % 4)
         IN [hex |-> [k \in 1..(Len(padded) \div 4) |->
                        HexDigits[padded[4 * k - 3] + padded[4 * k - 2] * 2
                                  + padded[4 * k - 1] * 4 + padded[4 * k] * 8 + 1]],
             bits |-> padded]

\* bits_to_hex appends zeros to the list it is given (bits.append(0)) until
\* its length is a multiple of 4, so the caller's list is changed: the
\* operator returns the hex string and the list as the call leaves it.
bits_to_hex(bits) ==
    IF bits = <<>> THEN [hex |-> <<>>, bits |-> <<>>]
    ELSE LET padded == bits \o Rep(<<0>>, (4 - (Len(bits) % 4)) % 4)
         IN [hex |-> [k \in 1..(Len(padded) \div 4) |->
                        HexDigits[padded[4 * k - 3] * 8 + padded[4 * k - 2] * 4
                                  + padded[4 * k - 1] * 2 + padded[4 * k] + 1]],
             bits |-> padded]

\* The key of max() in auto mode.
CandidateScore(bits) ==
    IF 8 <= Len(bits) /\ Len(bits) <= 1000 THEN Len(bits) ELSE 0

\* A maximum that keeps the last of several maximal elements.
PyMaxIndex_Last(scores) ==
    CHOOSE i \in 1..Len(scores) :
        /\ \A j \in 1..Len(scores) : scores[j] <= scores[i]
        /\ \A j \in (i + 1)..Len(scores) : scores[j] < scores[i]

\* Python's max(): the first element whose key is maximal.
PyMaxIndex(scores) ==
    CHOOSE i \in 1..Len(scores) :
        /\ \A j \in 1..Len(scores) : scores[j] <= scores[i]
        /\ \A j \in 1..(i - 1) : scores[j] < scores[i]

Candidates(binary_signal) ==
    <<[encoding |-> "ook", bits |-> decode_ook(binary_signal)],
      [encoding |-> "manchester", bits |-> decode_manchester(binary_signal)],
      [encoding |-> "pwm", bits |-> decode_pwm(binary_signal)]>>

\* The encoding and bit list chosen for the requested mode.
SelectBits(binary_signal, mode) ==
    IF mode = "auto"
    THEN LET candidates == Candidates(binary_signal)
             scores == [i \in 1..3 |-> CandidateScore(candidates[i].bits)]
         IN candidates[PyMaxIndex(scores)]
    ELSE IF mode = "manchester"
    THEN [encoding |-> mode, bits |-> decode_manchester(binary_signal)]
    ELSE IF mode = "ook"
    THEN [encoding |-> mode, bits |-> decode_ook(binary_signal)]
    ELSE IF mode = "pwm"
    THEN [encoding |-> mode, bits |-> decode_pwm(binary_signal)]
    ELSE [encoding |-> mode, bits |-> <<>>]

NoDecode == [empty |-> TRUE]

\* decode_signal(data, mode).  preamble_index is -1 and data_bits is <<>>
\* when the result has no such key.
decode_signal(data, mode) ==
    IF data.raw_pulses = <<>> THEN NoDecode
    ELSE
    LET binary_signal == apply_threshold(data.raw_pulses)
        chosen == SelectBits(binary_signal, mode)
        preamble_idx == find_preamble(chosen.bits, DefaultPreamble)
    IN IF chosen.bits = <<>>
       THEN [empty |-> FALSE, raw_pulses |-> Len(data.raw_pulses),
             binary_signal |-> binary_signal, encoding |-> chosen.encoding,
             bits |-> <<>>, hex_data |-> <<>>, preamble_found |-> FALSE,
             preamble_index |-> -1, data_bits |-> <<>>]
       ELSE IF preamble_idx >= 0
       THEN LET packed == bits_to_hex(
                            extract_data_bits(chosen.bits, preamble_idx + 8, 24))
            IN [empty |-> FALSE, raw_pulses |-> Len(data.raw_pulses),
                binary_signal |-> binary_signal, encoding |-> chosen.encoding,
                bits |-> chosen.bits, hex_data |-> packed.hex,
                preamble_found |-> TRUE, preamble_index |-> preamble_idx,
                data_bits |-> packed.bits]
       ELSE LET packed == bits_to_hex(chosen.bits)
            IN [empty |-> FALSE, raw_pulses |-> Len(data.raw_pulses),
                binary_signal |-> binary_signal, encoding |-> chosen.encoding,
                bits |-> packed.bits, hex_data |-> packed.hex,
                preamble_found |-> FALSE, preamble_index |-> -1,
                data_bits |-> <<>>]

DecodedBits(decoded) == IF decoded.empty THEN <<>> ELSE decoded.bits

DecodedEncoding(decoded) == IF decoded.empty THEN "unknown" ELSE decoded.encoding

DecodedPreamble(decoded) == IF decoded.empty THEN FALSE ELSE decoded.preamble_found

\* ------------------------------------------------------- float arithmetic
\* The double sums that are not the double nearest to the decimal sum, for
\* every pair (accumulated score, increment) the program can add.
FloatSumRounding ==
    <<100, 50>> :> 151 @@ <<100, 200>> :> 301 @@ <<200, 100>> :> 301 @@
    <<300, 150>> :> 449 @@ <<301, 100>> :> 400 @@ <<301, 200>> :> 500 @@
    <<350, 50>> :> 399 @@ <<350, 100>> :> 449 @@ <<351, 150>> :> 500 @@
    <<400, 200>> :> 601 @@ <<549, 50>> :> 600 @@ <<550, 50>> :> 601 @@
    <<550, 150>> :> 701 @@ <<601, 200>> :> 800 @@ <<649, 50>> :> 700 @@
    <<650, 50>> :> 701 @@ <<700, 100>> :> 799 @@ <<700, 200>> :> 899 @@
    <<701, 100>> :> 800 @@ <<799, 50>> :> 850 @@ <<800, 50>> :> 851 @@
    <<800, 150>> :> 951 @@ <<851, 150>> :> 1000 @@ <<899, 50>> :> 950 @@
    <<900, 50>> :> 951 @@ <<951, 50>> :> 1000 @@ <<951, 100>> :> 1050 @@
    <<1050, 100>> :> 1151

\* score += increment, on encoded doubles.
FloatAdd(score, increment) ==
    IF <<score, increment>> \in DOMAIN FloatSumRounding
    THEN FloatSumRounding[<<score, increment>>]
    ELSE score + increment

\* The value of an encoded double in hundredths.
Hundredths(x) == (x + 1) \div 10

\* ---------------------------------------------------------------- protocol
NoPattern == <<>>

PROTOCOL_SIGNATURES ==
    <<[name |-> "KeeLoq", freq_min |-> 315000000, freq_max |-> 434000000,
       typical_bit_length |-> 66, encoding |-> "pwm",
       preamble_pattern |-> <<1, 0, 1, 0, 1, 0, 1, 0>>],
      [name |-> "Fixed Code", freq_min |-> 300000000, freq_max |-> 450000000,
       typical_bit_length |-> 24, encoding |-> "ook",
       preamble_pattern |-> <<1, 0, 1, 0, 1, 0>>],
      [name |-> "HCS301", freq_min |-> 315000000, freq_max |-> 434000000,
       typical_bit_length |-> 66, encoding |-> "pwm",
       preamble_pattern |-> NoPattern],
      [name |-> "HCS200", freq_min |-> 315000000, freq_max |-> 434000000,
       typical_bit_length |-> 66, encoding |-> "pwm",
       preamble_pattern |-> NoPattern],
      [name |-> "Princeton", freq_min |-> 315000000, freq_max |-> 434000000,
       typical_bit_length |-> 24, encoding |-> "ook",
       preamble_pattern |-> NoPattern],
      [name |-> "CAME", freq_min |-> 433920000, freq_max |-> 433920000,
       typical_bit_length |-> 12, encoding |-> "ook",
       preamble_pattern |-> NoPattern],
      [name |-> "Nice FLO", freq_min |-> 433920000, freq_max |-> 433920000,
       typical_bit_length |-> 12, encoding |-> "ook",
       preamble_pattern |-> NoPattern],
      [name |-> "Chamberlain", freq_min |-> 315000000, freq_max |-> 390000000,
       typical_bit_length |-> 32, encoding |-> "pwm",
       preamble_pattern |-> NoPattern],
      [name |-> "Linear", freq_min |-> 300000000, freq_max |-> 400000000,
       typical_bit_length |-> 20, encoding |-> "ook",
       preamble_pattern |-> NoPattern],
      [name |-> "FAAC SLH", freq_min |-> 433920000, freq_max |-> 433920000,
       typical_bit_length |-> 64, encoding |-> "pwm",
       preamble_pattern |-> NoPattern]>>

\* The frequency subscore (40% weight), in encoded hundredths.
FrequencyScore(frequency, signature) ==
    IF signature.freq_min <= frequency /\ frequency <= signature.freq_max
    THEN 400
    ELSE IF Abs(frequency - signature.freq_min) < 50000000
    THEN 200
    ELSE 0

\* The bit length subscore (30% weight).
BitLengthScore(decoded_bits, signature) ==
    IF decoded_bits > 0
    THEN LET bit_length_diff == Abs(decoded_bits - signature.typical_bit_length)
         IN IF bit_length_diff = 0 THEN 300
            ELSE IF bit_length_diff <= 5 THEN 200
            ELSE IF bit_length_diff <= 10 THEN 100
            ELSE 0
    ELSE 0

\* The encoding subscore (20% weight).
EncodingScore(encoding, signature) ==
    IF encoding = signature.encoding THEN 200 ELSE 0

\* The preamble subscore (10% weight).
PreambleScore(preamble_found, signature) ==
    IF signature.preamble_pattern # <<>> /\ preamble_found THEN 100 ELSE 0

\* confidence += w only for the branches taken; min(confidence, 1.0).
Confidence(frequency, decoded_bits, encoding, preamble_found, signature) ==
    LET c1 == FloatAdd(0, FrequencyScore(frequency, signature))
        b == BitLengthScore(decoded_bits, signature)
        c2 == IF b > 0 THEN FloatAdd(c1, b) ELSE c1
        e == EncodingScore(encoding, signature)
        c3 == IF e > 0 THEN FloatAdd(c2, e) ELSE c2
        p == PreambleScore(preamble_found, signature)
        c4 == IF p > 0 THEN FloatAdd(c3, p) ELSE c3
    IN IF c4 < 1000 THEN c4 ELSE 1000

calculate_protocol_confidence(data, decoded, signature) ==
    Confidence(data.frequency, Len(DecodedBits(decoded)),
               DecodedEncoding(decoded), DecodedPreamble(decoded), signature)

get_match_reasons(data, decoded, signature) ==
    LET decoded_bits == Len(DecodedBits(decoded))
    IN (IF signature.freq_min <= data.frequency
            /\ data.frequency <= signature.freq_max
        THEN <<"frequency">> ELSE <<>>)
       \o (IF Abs(decoded_bits - signature.typical_bit_length) <= 5
           THEN <<"bit_length">> ELSE <<>>)
       \o (IF DecodedEncoding(decoded) = signature.encoding
           THEN <<"encoding">> ELSE <<>>)
       \o (IF signature.preamble_pattern # <<>> /\ DecodedPreamble(decoded)
           THEN <<"preamble">> ELSE <<>>)

\* A filter that also keeps a confidence of exactly 0.1.
KeepsMatch_AtLeast(confidence) == confidence >= 100

\* The confidence above which a signature is listed as a match (0.1).
KeepsMatch(confidence) == confidence > 100

\* An order that puts the later of two matches of equal confidence first.
Before_LaterFirst(conf, i, j) == conf[i] > conf[j] \/ (conf[i] = conf[j] /\ i > j)

\* matches.sort(key=confidence, reverse=True): a stable sort, so matches of
\* equal confidence keep their catalog order.  Before(i, j): match i is
\* placed before match j.
Before(conf, i, j) == conf[i] > conf[j] \/ (conf[i] = conf[j] /\ i < j)

SortedMatches(conf) ==
    LET kept == {i \in 1..Len(conf) : KeepsMatch(conf[i])}
        Place(i) == 1 + Cardinality({j \in kept : Before(conf, j, i)})
    IN [p \in 1..Cardinality(kept) |-> CHOOSE i \in kept : Place(i) = p]

NoIdentification ==
    [identified_protocol |-> "Unknown", confidence |-> 0, matches |-> <<>>,
     decoded_data |-> NoDecode]

\* identify_protocol reading the catalog given.
identify_against(catalog, data) ==
    IF data.raw_pulses = <<>> THEN NoIdentification
    ELSE
    LET decoded == decode_signal(data, "auto")
        conf == [i \in 1..Len(catalog) |->
                    calculate_protocol_confidence(
                        data, decoded, catalog[i])]
        order == SortedMatches(conf)
        matches == [p \in 1..Len(order) |->
                      [protocol |-> catalog[order[p]].name,
                       confidence |-> conf[order[p]],
                       reasons |-> get_match_reasons(
                                     data, decoded,
                                     catalog[order[p]])]]
    IN IF matches = <<>>
       THEN [identified_protocol |-> "Unknown", confidence |-> 0,
             matches |-> matches, decoded_data |-> decoded]
       ELSE [identified_protocol |-> matches[1].protocol,
             confidence |-> matches[1].confidence,
             matches |-> matches, decoded_data |-> decoded]

identify_protocol(data) == identify_against(PROTOCOL_SIGNATURES, data)

\* -------------------------------------------------------------- classifier
\* A ratio kept as <<numerator, denominator>>; 0.0 is <<0, 1>>.
Zero == <<0, 1>>

RatioLess(a, b) == a[1] * b[2] < b[1] * a[2]

calculate_complexity_score(bits) ==
    IF bits = <<>> THEN Zero
    ELSE <<Cardinality({i \in 2..Len(bits) : bits[i] # bits[i - 1]}), Len(bits)>>

\* The entropy is kept as <<ones, total>>, standing for the Shannon entropy
\* of ones/total; a constant or empty sequence has entropy 0.0.
calculate_entropy_score(bits) ==
    IF bits = <<>> THEN Zero
    ELSE LET ones == Cardinality({i \in 1..Len(bits) : bits[i] = 1})
         IN IF ones = 0 \/ ones = Len(bits) THEN Zero ELSE <<ones, Len(bits)>>

\* Entropy thresholds, for sequences of at most 5000 bits.  With m the count
\* of the rarer bit, H(m/n) > 0.8 iff m/n > 0.2430038..., and 686/2823 is the
\* smallest fraction above that with a denominator up to 5000; H(m/n) < 0.5
\* iff m/n < 0.1100278..., and 79/718 is the largest such fraction below it.
EntropyAbove08(entropy) ==
    LET m == IF 2 * entropy[1] <= entropy[2]
             THEN entropy[1] ELSE entropy[2] - entropy[1]
    IN m * 2823 >= 686 * entropy[2]

EntropyBelow05(entropy) ==
    LET m == IF 2 * entropy[1] <= entropy[2]
             THEN entropy[1] ELSE entropy[2] - entropy[1]
    IN m * 718 <= 79 * entropy[2]

\* Pattern lengths up to and including min(15, len(bits) // 2).
PatternLengths_Inclusive(n) ==
    2..(IF 15 < n \div 2 THEN 15 ELSE n \div 2)

\* The pattern lengths tried: range(2, min(16, len(bits) // 2)).
PatternLengths(n) ==
    2..((IF 16 < n \div 2 THEN 16 ELSE n \div 2) - 1)

\* The windows compared with the first one: i in
\* range(pattern_length, len(bits) - pattern_length + 1, pattern_length).
Repetitions(bits, pattern_length) ==
    Cardinality({m \in 1..(Len(bits) \div pattern_length - 1) :
        SubSeq(bits, m * pattern_length + 1, (m + 1) * pattern_length)
            = SubSeq(bits, 1, pattern_length)})

analyze_pattern_repetition(bits) ==
    IF Len(bits) < 8 THEN Zero
    ELSE LET ratios == {<<Repetitions(bits, l), Len(bits) \div l>> :
                            l \in PatternLengths(Len(bits))} \cup {Zero}
         IN CHOOSE r \in ratios : \A q \in ratios : ~RatioLess(r, q)

\* A categorisation that has no category for an empty bit list.
BitLengthCategory_NoneForEmpty(bit_count) ==
    IF bit_count = 0 THEN ""
    ELSE IF bit_count < 20 THEN "short"
    ELSE IF bit_count < 40 THEN "medium"
    ELSE IF bit_count < 70 THEN "long"
    ELSE "very_long"

BitLengthCategory(bit_count) ==
    IF bit_count < 20 THEN "short"
    ELSE IF bit_count < 40 THEN "medium"
    ELSE IF bit_count < 70 THEN "long"
    ELSE "very_long"

EncodingComplexity(encoding) ==
    IF encoding \in {"ook"} THEN "simple"
    ELSE IF encoding \in {"pwm", "manchester"} THEN "complex"
    ELSE "unknown"

\* Buckets that are open at their upper end.
FrequencyCategory_HalfOpen(freq) ==
    IF 300000000 <= freq /\ freq < 350000000 THEN "low_uhf"
    ELSE IF 350000000 <= freq /\ freq < 400000000 THEN "mid_uhf"
    ELSE IF 400000000 <= freq /\ freq < 450000000 THEN "high_uhf"
    ELSE "other"

FrequencyCategory(freq) ==
    IF 300000000 <= freq /\ freq <= 350000000 THEN "low_uhf"
    ELSE IF 350000000 <= freq /\ freq <= 400000000 THEN "mid_uhf"
    ELSE IF 400000000 <= freq /\ freq <= 450000000 THEN "high_uhf"
    ELSE "other"

NoCharacteristics == [empty |-> TRUE]

analyze_classification_characteristics(data, decoded, info) ==
    [empty |-> FALSE,
     frequency |-> data.frequency,
     total_pulses |-> Len(data.raw_pulses),
     decoded_bits |-> Len(DecodedBits(decoded)),
     encoding |-> DecodedEncoding(decoded),
     has_preamble |-> DecodedPreamble(decoded),
     identified_protocol |-> info.identified_protocol,
     protocol_confidence |-> info.confidence,
     bit_length_category |-> BitLengthCategory(Len(DecodedBits(decoded))),
     complexity_score |-> calculate_complexity_score(DecodedBits(decoded)),
     entropy_score |-> calculate_entropy_score(DecodedBits(decoded)),
     pattern_repetition |-> analyze_pattern_repetition(DecodedBits(decoded)),
     encoding_complexity |-> EncodingComplexity(DecodedEncoding(decoded)),
     frequency_category |-> FrequencyCategory(data.frequency)]

\* str.lower() on the names identify_protocol can return.
Lower(name) ==
    CASE name = "KeeLoq" -> "keeloq"
      [] name = "Fixed Code" -> "fixed code"
      [] name = "HCS301" -> "hcs301"
      [] name = "HCS200" -> "hcs200"
      [] name = "Princeton" -> "princeton"
      [] name = "CAME" -> "came"
      [] name = "Nice FLO" -> "nice flo"
      [] name = "Chamberlain" -> "chamberlain"
      [] name = "Linear" -> "linear"
      [] name = "FAAC SLH" -> "faac slh"
      [] name = "Unknown" -> "unknown"

RollingProtocols == {"keeloq", "hcs301", "hcs200", "faac slh", "chamberlain"}

FixedProtocols == {"princeton", "fixed code", "came", "nice flo", "linear"}

MixedNote == "Classification uncertain due to mixed indicators"

InsufficientNote == "Insufficient data for classification"

\* One rule's effect: the increment (encoded hundredths, 0 for none), the
\* accumulator it goes to and the reasoning strings it appends.
Effect(target, increment, reasons) ==
    [target |-> target, increment |-> increment, reasons |-> reasons]

NoEffect == Effect("none", 0, <<>>)

Rule1(c) ==
    IF c.protocol_confidence > 500
    THEN IF Lower(c.identified_protocol) \in RollingProtocols
         THEN Effect("rolling", 400,
                <<"Protocol " \o Lower(c.identified_protocol)
                    \o " is typically rolling code">>)
         ELSE IF Lower(c.identified_protocol) \in FixedProtocols
         THEN Effect("fixed", 400,
                <<"Protocol " \o Lower(c.identified_protocol)
                    \o " is typically fixed code">>)
         ELSE NoEffect
    ELSE NoEffect

Rule2(c) ==
    IF c.bit_length_category = "very_long"
    THEN Effect("rolling", 300, <<"Very long bit length suggests rolling code">>)
    ELSE IF c.bit_length_category = "long"
    THEN Effect("rolling", 200, <<"Long bit length suggests rolling code">>)
    ELSE IF c.bit_length_category \in {"short", "medium"}
    THEN Effect("fixed", 200, <<"Shorter bit length suggests fixed code">>)
    ELSE NoEffect

Rule3(c) ==
    IF c.encoding_complexity = "complex"
    THEN Effect("rolling", 150,
           <<"Complex encoding (PWM/Manchester) often used in rolling codes">>)
    ELSE IF c.encoding_complexity = "simple"
    THEN Effect("fixed", 100,
           <<"Simple encoding (OOK) often used in fixed codes">>)
    ELSE NoEffect

\* complexity_score > 0.4, complexity_score < 0.2.
Rule4(c) ==
    IF 5 * c.complexity_score[1] > 2 * c.complexity_score[2]
    THEN Effect("rolling", 100, <<"High signal complexity suggests rolling code">>)
    ELSE IF 5 * c.complexity_score[1] < c.complexity_score[2]
    THEN Effect("fixed", 100, <<"Low signal complexity suggests fixed code">>)
    ELSE NoEffect

Rule5(c) ==
    IF EntropyAbove08(c.entropy_score)
    THEN Effect("rolling", 100, <<"High entropy suggests rolling code">>)
    ELSE IF EntropyBelow05(c.entropy_score)
    THEN Effect("fixed", 50, <<"Low entropy suggests fixed code">>)
    ELSE NoEffect

\* pattern_repetition > 0.7, pattern_repetition < 0.3.
Rule6(c) ==
    IF 10 * c.pattern_repetition[1] > 7 * c.pattern_repetition[2]
    THEN Effect("fixed", 150, <<"High pattern repetition suggests fixed code">>)
    ELSE IF 10 * c.pattern_repetition[1] < 3 * c.pattern_repetition[2]
    THEN Effect("rolling", 100, <<"Low pattern repetition suggests rolling code">>)
    ELSE NoEffect

Rule7(c) ==
    IF c.frequency_category \in {"mid_uhf", "high_uhf"}
    THEN Effect("rolling", 50, <<>>)
    ELSE NoEffect

\* The rules with the encoding rule evaluated before the bit length rule.
Rules_Reordered(c) ==
    <<Rule1(c), Rule3(c), Rule2(c), Rule4(c), Rule5(c), Rule6(c), Rule7(c)>>

\* The rules in the order the function evaluates them.
Rules(c) ==
    <<Rule1(c), Rule2(c), Rule3(c), Rule4(c), Rule5(c), Rule6(c), Rule7(c)>>

\* A rule engine that adds every increment to the other accumulator.
ApplyEffect_Swapped(before, e) ==
    [rolling |-> IF e.target = "fixed"
                 THEN FloatAdd(before.rolling, e.increment)
                 ELSE before.rolling,
     fixed |-> IF e.target = "rolling"
               THEN FloatAdd(before.fixed, e.increment)
               ELSE before.fixed,
     reasoning |-> before.reasoning \o e.reasons]

\* rolling_score += w or fixed_score += w, and reasoning.append(...).
ApplyEffect(before, e) ==
    [rolling |-> IF e.target = "rolling"
                 THEN FloatAdd(before.rolling, e.increment)
                 ELSE before.rolling,
     fixed |-> IF e.target = "fixed"
               THEN FloatAdd(before.fixed, e.increment)
               ELSE before.fixed,
     reasoning |-> before.reasoning \o e.reasons]

\* The scores and the reasoning after the first n rules.
RECURSIVE Accumulate(_, _)
Accumulate(effects, n) ==
    IF n = 0 THEN [rolling |-> 0, fixed |-> 0, reasoning |-> <<>>]
    ELSE ApplyEffect(Accumulate(effects, n - 1), effects[n])

\* The pairs (numerator score, other score) whose decimal ratio
\* numerator / (numerator + other) is exactly 0.6 and whose double quotient
\* is 0.6000000000000001: the only exact ties that compare above 0.6, over
\* every combination of rule outcomes (<<151, 100>> needs a characteristics
\* dict on which the bit length rule does not fire).
QuotientAboveSixTenths ==
    {<<151, 100>>, <<301, 200>>, <<451, 300>>, <<601, 400>>, <<601, 399>>}

\* The comparison with one half in place of 0.6.
ExceedsSixTenths_Half(score, other) ==
    Hundredths(score) > Hundredths(other)

\* score / total_score > 0.6 on doubles, total_score = score + other.
ExceedsSixTenths(score, other) ==
    LET n == Hundredths(score)
        t == Hundredths(score) + Hundredths(other)
    IN IF 5 * n = 3 * t
       THEN <<score, other>> \in QuotientAboveSixTenths
       ELSE 5 * n > 3 * t

\* A confidence is 0.0 (ZeroConfidence) or the double quotient
\* num / (rolling + fixed), kept as its three scores.
ZeroConfidence == [num |-> 0, rolling |-> 0, fixed |-> 0]

Quotient(num, rolling, fixed) == [num |-> num, rolling |-> rolling, fixed |-> fixed]

\* A resolution that calls the larger score the winner (threshold 0.5).
Resolve_Majority(rolling_score, fixed_score, reasoning) ==
    IF rolling_score + fixed_score > 0
    THEN IF rolling_score > fixed_score
         THEN [signal_type |-> "Rolling",
               confidence |-> Quotient(rolling_score, rolling_score, fixed_score),
               reasoning |-> reasoning]
         ELSE IF fixed_score > rolling_score
         THEN [signal_type |-> "Fixed",
               confidence |-> Quotient(fixed_score, rolling_score, fixed_score),
               reasoning |-> reasoning]
         ELSE [signal_type |-> "Uncertain",
               confidence |-> Quotient(rolling_score, rolling_score, fixed_score),
               reasoning |-> reasoning \o <<MixedNote>>]
    ELSE [signal_type |-> "Unknown", confidence |-> ZeroConfidence,
          reasoning |-> reasoning \o <<InsufficientNote>>]

\* The final classification from the two scores.
Resolve(rolling_score, fixed_score, reasoning) ==
    IF rolling_score + fixed_score > 0
    THEN IF ExceedsSixTenths(rolling_score, fixed_score)
         THEN [signal_type |-> "Rolling",
               confidence |-> Quotient(rolling_score, rolling_score, fixed_score),
               reasoning |-> reasoning]
         ELSE IF ExceedsSixTenths(fixed_score, rolling_score)
         THEN [signal_type |-> "Fixed",
               confidence |-> Quotient(fixed_score, rolling_score, fixed_score),
               reasoning |-> reasoning]
         ELSE [signal_type |-> "Uncertain",
               confidence |-> Quotient(IF rolling_score >= fixed_score
                                       THEN rolling_score ELSE fixed_score,
                                       rolling_score, fixed_score),
               reasoning |-> reasoning \o <<MixedNote>>]
    ELSE [signal_type |-> "Unknown", confidence |-> ZeroConfidence,
          reasoning |-> reasoning \o <<InsufficientNote>>]

\* The result carries the two local scores, for the properties about them.
apply_classification_rules(c) ==
    LET acc == Accumulate(Rules(c), 7)
        r == Resolve(acc.rolling, acc.fixed, acc.reasoning)
    IN [signal_type |-> r.signal_type, confidence |-> r.confidence,
        reasoning |-> r.reasoning,
        rolling_score |-> acc.rolling, fixed_score |-> acc.fixed]

\* SignalClassification(): the result before any rule has run.
NewClassification ==
    [signal_type |-> "Unknown", confidence |-> ZeroConfidence,
     reasoning |-> <<>>, rolling_score |-> 0, fixed_score |-> 0]

\* ------------------------------------------------------------------ inputs
\* Capture frequencies: 0 (no Frequency header), and the values around the
\* boundaries of the signature ranges and of the frequency categories.
Frequencies ==
    {0, 265000000, 265000001, 299999999, 300000000, 315000000, 350000000,
     350000001, 390000000, 400000000, 400000001, 433920000, 440000000,
     450000000, 450000001, 483919999, 483920000}

RECURSIVE SeqsUpTo(_, _)
SeqsUpTo(S, n) ==
    IF n = 0 THEN {<<>>}
    ELSE LET shorter == SeqsUpTo(S, n - 1)
         IN shorter \cup {Append(s, x) : s \in {t \in shorter : Len(t) = n - 1},
                                          x \in S}

\* Every pulse train of up to MaxShortLen pulses.
ShortTrains == SeqsUpTo(1..MaxDur, MaxShortLen)

\* A long pulse (3) followed by a short one (1), k times: k level-1 samples
\* and k high-to-low pairs.
PairCounts == {7, 8, 9, 10, 11, 12, 13, 20, 24, 32, 64, 66, 70}

\* The same with 1000 and 1001 level-1 samples, the ends of the range in
\* which a candidate's bit count is its score.
LongPairCounts == {1000, 1001}

\* The pulse train whose aligned pairs spell the bits in Manchester code.
ManchesterTrain(bits) ==
    [i \in 1..(2 * Len(bits)) |->
        IF (bits[(i + 1) \div 2] = 1) = (i % 2 = 1) THEN 3 ELSE 1]

\* 2p long pulses then 2p short ones: 2p level-1 samples, no transition
\* inside an aligned pair.
Padding(p) == Rep(<<3, 3>>, p) \o Rep(<<1, 1>>, p)

PayloadCells == {<<1>>, <<1, 0>>, <<0, 0, 0, 1>>, <<1, 1, 0, 1, 0, 0, 1>>}

PayloadRepeats == {1, 8, 24}

ManchesterPayloads ==
    {pre \o Rep(cell, k) :
        pre \in {<<>>, DefaultPreamble}, cell \in PayloadCells,
        k \in PayloadRepeats}

MediumTrains == {Rep(<<3, 1>>, k) : k \in PairCounts}

\* Trains with more than 1000 level-1 samples, the only ones for which the
\* OOK candidate scores 0 and another candidate can win.
LongTrains ==
    {Rep(<<3, 1>>, k) : k \in LongPairCounts}
    \cup {Padding(500) \o ManchesterTrain(b) : b \in ManchesterPayloads}
    \cup {Padding(500), Padding(501)}

\* The long trains are paired with a frequency outside every range, one in
\* the low band and one in the high band.
LongFrequencies == {0, 315000000, 433920000}

Captures ==
    {[frequency |-> f, raw_pulses |-> p] :
        f \in Frequencies, p \in ShortTrains \cup MediumTrains}
    \cup {[frequency |-> f, raw_pulses |-> p] :
            f \in LongFrequencies, p \in LongTrains}

\* ----------------------------------------------------------- state machine
VARIABLES
    data,             \* the capture being analysed (SubFileData)
    pc,               \* where classify_signal is
    protocol_info,    \* the result of identify_protocol
    decoded,          \* the result of decode_signal(data, 'auto')
    characteristics,  \* the result of _analyze_classification_characteristics
    classification,   \* the SignalClassification being filled in
    call,             \* one call of a decoder or classifier helper
    file,             \* the lines of a .sub file given to parse_sub_file
    parsed,           \* what parse_sub_file returned or raised
    data1, data2,     \* the two captures given to compare_signals
    class1, class2,   \* their classifications inside compare_signals
    comparison,       \* the result of compare_signals
    analyses,         \* the analyses of several captures that run interleaved
    signature_catalog, \* the module-level list PROTOCOL_SIGNATURES
    chunking          \* one call of DocumentProcessor.chunk_content

pipeline_vars ==
    <<data, pc, protocol_info, decoded, characteristics, classification>>

helper_vars == <<call>>

reader_vars == <<file, parsed>>

compare_vars == <<data1, data2, class1, class2, comparison>>

concurrent_vars == <<analyses, signature_catalog>>

chunk_vars == <<chunking>>

vars == <<pipeline_vars, helper_vars, reader_vars, compare_vars, concurrent_vars,
          chunk_vars>>

\* The value of a variable that the specification at hand does not use.
NotInUse == "not in use"

PipelineNotInUse ==
    /\ data = NotInUse
    /\ pc = NotInUse
    /\ protocol_info = NotInUse
    /\ decoded = NotInUse
    /\ characteristics = NotInUse
    /\ classification = NotInUse

HelpersNotInUse == call = NotInUse

ReaderNotInUse == file = NotInUse /\ parsed = NotInUse

CompareNotInUse ==
    /\ data1 = NotInUse
    /\ data2 = NotInUse
    /\ class1 = NotInUse
    /\ class2 = NotInUse
    /\ comparison = NotInUse

ConcurrentNotInUse == analyses = NotInUse /\ signature_catalog = NotInUse

ChunkNotInUse == chunking = NotInUse

\* ------------------------------------------- classify_signal on one capture
Init ==
    /\ HelpersNotInUse
    /\ ReaderNotInUse
    /\ CompareNotInUse
    /\ ConcurrentNotInUse
    /\ ChunkNotInUse
    /\ data \in Captures
    /\ pc = "parsed"
    /\ protocol_info = NoIdentification
    /\ decoded = NoDecode
    /\ characteristics = NoCharacteristics
    /\ classification = NewClassification

\* An early return that leaves the reasoning empty.
ClassifyNoData_Silent ==
    /\ pc = "parsed"
    /\ data.raw_pulses = <<>>
    /\ pc' = "classified"
    /\ UNCHANGED <<data, protocol_info, decoded, characteristics, classification,
                 helper_vars, reader_vars, compare_vars, concurrent_vars, chunk_vars>>

\* classify_signal on a capture without pulses.
ClassifyNoData ==
    /\ pc = "parsed"
    /\ data.raw_pulses = <<>>
    /\ classification' =
          [classification EXCEPT !.reasoning = <<"No signal data available">>]
    /\ pc' = "classified"
    /\ UNCHANGED <<data, protocol_info, decoded, characteristics,
                 helper_vars, reader_vars, compare_vars, concurrent_vars, chunk_vars>>

IdentifyProtocol ==
    /\ pc = "parsed"
    /\ data.raw_pulses # <<>>
    /\ protocol_info' = identify_protocol(data)
    /\ pc' = "identified"
    /\ UNCHANGED <<data, decoded, characteristics, classification,
                 helper_vars, reader_vars, compare_vars, concurrent_vars, chunk_vars>>

DecodeSignal ==
    /\ pc = "identified"
    /\ decoded' = decode_signal(data, "auto")
    /\ pc' = "decoded"
    /\ UNCHANGED <<data, protocol_info, characteristics, classification,
                 helper_vars, reader_vars, compare_vars, concurrent_vars, chunk_vars>>

AnalyzeCharacteristics ==
    /\ pc = "decoded"
    /\ characteristics' =
          analyze_classification_characteristics(data, decoded, protocol_info)
    /\ pc' = "analyzed"
    /\ UNCHANGED <<data, protocol_info, decoded, classification,
                 helper_vars, reader_vars, compare_vars, concurrent_vars, chunk_vars>>

ApplyClassificationRules ==
    /\ pc = "analyzed"
    /\ classification' = apply_classification_rules(characteristics)
    /\ pc' = "classified"
    /\ UNCHANGED <<data, protocol_info, decoded, characteristics,
                 helper_vars, reader_vars, compare_vars, concurrent_vars, chunk_vars>>

Next ==
    \/ ClassifyNoData
    \/ IdentifyProtocol
    \/ DecodeSignal
    \/ AnalyzeCharacteristics
    \/ ApplyClassificationRules

Spec == Init /\ [][Next]_vars

\* ------------------------------------------------ single calls of helpers
\* The helpers are called on every bit sequence of up to MaxBits bits and on
\* periodic sequences long enough for every pattern length up to 15.
UnitCell(n) == [i \in 1..n |-> IF i = 1 THEN 1 ELSE 0]

PeriodicBits ==
    {Rep(UnitCell(n), k) : n \in {4, 5, 8, 12, 14, 15, 16, 17}, k \in 2..3}
    \cup {Rep(cell, 8) : cell \in PayloadCells}

HelperBits == SeqsUpTo({0, 1}, MaxBits) \cup PeriodicBits

\* The patterns find_preamble is called with; None stands for the default.
PreamblePatterns == {DefaultPreamble, <<1, 0, 1, 0, 1, 0>>, <<1, 1>>, <<0>>}

\* A thresholded signal with the given levels.
SignalOfLevels(levels) == [i \in 1..Len(levels) |-> <<levels[i] + 1, levels[i]>>]

HelperInit ==
    /\ PipelineNotInUse
    /\ ReaderNotInUse
    /\ CompareNotInUse
    /\ ConcurrentNotInUse
    /\ ChunkNotInUse
    /\ \E bits \in HelperBits : call = [op |-> "none", bits |-> bits]

CallPatternRepetition ==
    /\ call.op = "none"
    /\ call' = [op |-> "_analyze_pattern_repetition", bits |-> call.bits,
                result |-> analyze_pattern_repetition(call.bits)]
    /\ UNCHANGED <<pipeline_vars, reader_vars, compare_vars, concurrent_vars, chunk_vars>>

CallDecodeManchester ==
    /\ call.op = "none"
    /\ call' = [op |-> "decode_manchester", bits |-> call.bits,
                result |-> decode_manchester(SignalOfLevels(call.bits))]
    /\ UNCHANGED <<pipeline_vars, reader_vars, compare_vars, concurrent_vars, chunk_vars>>

CallFindPreamble ==
    /\ call.op = "none"
    /\ \E preamble_pattern \in PreamblePatterns :
          call' = [op |-> "find_preamble", bits |-> call.bits,
                   pattern |-> preamble_pattern,
                   result |-> find_preamble(call.bits, preamble_pattern)]
    /\ UNCHANGED <<pipeline_vars, reader_vars, compare_vars, concurrent_vars, chunk_vars>>

\* bits_to_hex(bits): left is the caller's list after the call.
CallBitsToHex ==
    /\ call.op = "none"
    /\ call' = [op |-> "bits_to_hex", bits |-> call.bits,
                result |-> bits_to_hex(call.bits).hex,
                left |-> bits_to_hex(call.bits).bits]
    /\ UNCHANGED <<pipeline_vars, reader_vars, compare_vars, concurrent_vars, chunk_vars>>

HelperNext ==
    \/ CallPatternRepetition
    \/ CallDecodeManchester
    \/ CallFindPreamble
    \/ CallBitsToHex

HelperSpec == HelperInit /\ [][HelperNext]_vars

\* ------------------------------------------------------------------ reader
\* A text is a sequence of characters.  A file is absent or a sequence of
\* lines; a line is its field name (the text before the first colon that
\* startswith recognises, "" for any other line) and, after the colon, one
\* text or, for RAW_Data, the whitespace-separated tokens.
DigitChars == <<"0", "1", "2", "3", "4", "5", "6", "7", "8", "9">>

\* str.isdigit() on ASCII text.
isdigit(text) ==
    text # <<>> /\ \A i \in 1..Len(text) : text[i] \in Range(DigitChars)

DigitValue(char) == (CHOOSE i \in 1..10 : DigitChars[i] = char) - 1

RECURSIVE NaturalOf(_)
NaturalOf(text) ==
    IF text = <<>> THEN 0
    ELSE 10 * NaturalOf(SubSeq(text, 1, Len(text) - 1))
           + DigitValue(text[Len(text)])

\* x.isdigit() or (x.startswith('-') and x[1:].isdigit()); int() accepts
\* exactly these texts over the characters used here.
IsIntegerText(text) ==
    isdigit(text) \/ (text # <<>> /\ text[1] = "-" /\ isdigit(Tail(text)))

int(text) == IF text[1] = "-" THEN -NaturalOf(Tail(text)) ELSE NaturalOf(text)

\* str.strip() for the blank character.
RECURSIVE strip(_)
strip(text) ==
    IF text = <<>> THEN text
    ELSE IF text[1] = " " THEN strip(Tail(text))
    ELSE IF text[Len(text)] = " " THEN strip(SubSeq(text, 1, Len(text) - 1))
    ELSE text

\* SubFileData().
NewSubFileData ==
    [filetype |-> <<>>, version |-> 0, frequency |-> 0, preset |-> <<>>,
     protocol |-> <<>>, key |-> <<>>, raw_data |-> <<>>, raw_pulses |-> <<>>]

\* [abs(x) for x in raw_data if abs(x) > 0]
process_raw_data(raw_data) ==
    LET NonZero(x) == Abs(x) > 0
        kept == SelectSeq(raw_data, NonZero)
    IN [i \in 1..Len(kept) |-> Abs(kept[i])]

\* The integers of a RAW_Data line: the tokens that are not integer texts are
\* skipped.
RawDataOf(tokens) ==
    LET kept == SelectSeq(tokens, IsIntegerText)
    IN [i \in 1..Len(kept) |-> int(kept[i])]

\* A loop body that extends the pulse values with those of each RAW_Data line.
ParseLine_Concatenating(acc, line) ==
    IF acc.raised THEN acc
    ELSE IF line.field = "Filetype"
    THEN [acc EXCEPT !.data.filetype = strip(line.text)]
    ELSE IF line.field = "Version"
    THEN IF IsIntegerText(strip(line.text))
         THEN [acc EXCEPT !.data.version = int(strip(line.text))]
         ELSE [acc EXCEPT !.raised = TRUE]
    ELSE IF line.field = "Frequency"
    THEN IF IsIntegerText(strip(line.text))
         THEN [acc EXCEPT !.data.frequency = int(strip(line.text))]
         ELSE [acc EXCEPT !.raised = TRUE]
    ELSE IF line.field = "Preset"
    THEN [acc EXCEPT !.data.preset = strip(line.text)]
    ELSE IF line.field = "Protocol"
    THEN [acc EXCEPT !.data.protocol = strip(line.text)]
    ELSE IF line.field = "Key"
    THEN [acc EXCEPT !.data.key = strip(line.text)]
    ELSE IF line.field = "RAW_Data"
    THEN [acc EXCEPT !.data.raw_data = acc.data.raw_data \o RawDataOf(line.tokens)]
    ELSE acc

\* One iteration of the loop over the lines.  raised: int() has raised
\* ValueError on a Version or Frequency value.
ParseLine(acc, line) ==
    IF acc.raised THEN acc
    ELSE IF line.field = "Filetype"
    THEN [acc EXCEPT !.data.filetype = strip(line.text)]
    ELSE IF line.field = "Version"
    THEN IF IsIntegerText(strip(line.text))
         THEN [acc EXCEPT !.data.version = int(strip(line.text))]
         ELSE [acc EXCEPT !.raised = TRUE]
    ELSE IF line.field = "Frequency"
    THEN IF IsIntegerText(strip(line.text))
         THEN [acc EXCEPT !.data.frequency = int(strip(line.text))]
         ELSE [acc EXCEPT !.raised = TRUE]
    ELSE IF line.field = "Preset"
    THEN [acc EXCEPT !.data.preset = strip(line.text)]
    ELSE IF line.field = "Protocol"
    THEN [acc EXCEPT !.data.protocol = strip(line.text)]
    ELSE IF line.field = "Key"
    THEN [acc EXCEPT !.data.key = strip(line.text)]
    ELSE IF line.field = "RAW_Data"
    THEN [acc EXCEPT !.data.raw_data = RawDataOf(line.tokens)]
    ELSE acc

RECURSIVE ParseLines(_, _)
ParseLines(lines, n) ==
    IF n = 0 THEN [data |-> NewSubFileData, raised |-> FALSE]
    ELSE ParseLine(ParseLines(lines, n - 1), lines[n])

\* parse_sub_file: the SubFileData returned, or the exception raised.
parse_sub_file(f) ==
    IF ~f.exists THEN [outcome |-> "FileNotFoundError"]
    ELSE LET acc == ParseLines(f.lines, Len(f.lines))
             parsed_data == [acc.data EXCEPT
                               !.raw_pulses = process_raw_data(acc.data.raw_data)]
         IN IF acc.raised THEN [outcome |-> "ValueError"]
            ELSE IF parsed_data.raw_data = <<>> /\ parsed_data.key = <<>>
            THEN [outcome |-> "ValueError"]
            ELSE [outcome |-> "returned", data |-> parsed_data]

\* The lines the files are made of.
TextLine(field, text) == [field |-> field, text |-> text]

RawDataLine(tokens) == [field |-> "RAW_Data", tokens |-> tokens]

FileLines ==
    {TextLine("Frequency", <<"4", "3", "3", "9", "2", "0", "0", "0", "0">>),
     TextLine("Frequency", <<"3", "1", "5", "x">>),
     TextLine("Protocol", <<"R", "A", "W">>),
     TextLine("Key", <<>>),
     TextLine("Key", <<" ">>),
     TextLine("Key", <<"A", "1", " ", "0", "F">>),
     TextLine("", <<>>),
     RawDataLine(<<>>),
     RawDataLine(<<<<"0">>, <<"-", "0">>>>),
     RawDataLine(<<<<"x">>, <<"-">>, <<"1", ".", "5">>>>),
     RawDataLine(<<<<"3">>, <<"-", "1">>, <<"0">>, <<"x", "2">>, <<"1", "2">>>>),
     RawDataLine(<<<<"-", "2">>, <<"7">>>>)}

Files ==
    {[exists |-> FALSE]}
    \cup {[exists |-> TRUE, lines |-> lines] : lines \in SeqsUpTo(FileLines, MaxLines)}

ReaderInit ==
    /\ PipelineNotInUse
    /\ HelpersNotInUse
    /\ CompareNotInUse
    /\ ConcurrentNotInUse
    /\ ChunkNotInUse
    /\ file \in Files
    /\ parsed = [outcome |-> "pending"]

ParseSubFile ==
    /\ parsed.outcome = "pending"
    /\ parsed' = parse_sub_file(file)
    /\ UNCHANGED <<file, pipeline_vars, helper_vars, compare_vars, concurrent_vars, chunk_vars>>

ReaderNext == ParseSubFile

ReaderSpec == ReaderInit /\ [][ReaderNext]_vars

\* ----------------------------------------------------------- comparison
\* classify_signal(data) as one call.  An empty dict is [empty |-> TRUE].
NoProtocolInfo == [empty |-> TRUE]

classify_signal(capture) ==
    IF capture.raw_pulses = <<>>
    THEN [signal_type |-> NewClassification.signal_type,
          confidence |-> NewClassification.confidence,
          reasoning |-> <<"No signal data available">>,
          protocol_info |-> NoProtocolInfo,
          characteristics |-> NoCharacteristics]
    ELSE LET Classified(info, features) ==
                 LET outcome == apply_classification_rules(features)
                 IN [signal_type |-> outcome.signal_type,
                     confidence |-> outcome.confidence,
                     reasoning |-> outcome.reasoning,
                     protocol_info |-> info,
                     characteristics |-> features]
             Analysed(info, signal) ==
                 {Classified(info, features) :
                     features \in {analyze_classification_characteristics(
                                       capture, signal, info)}}
         \* Each local is computed once, then used.
         IN CHOOSE classified \in
                UNION {Analysed(info, signal) :
                          info \in {identify_protocol(capture)},
                          signal \in {decode_signal(capture, "auto")}} : TRUE

\* dict.get(key, default)
Get(dict, key, default) == IF key \in DOMAIN dict THEN dict[key] ELSE default

\* One comparison: the weight added to similarity_score (0 for none) and the
\* entries appended to the two lists.
Compared(weight, similarities, differences) ==
    [weight |-> weight, similarities |-> similarities, differences |-> differences]

CompareFrequencies(frequency1, frequency2) ==
    IF Abs(frequency1 - frequency2) < 1000
    THEN Compared(300, <<"Same frequency">>, <<>>)
    ELSE Compared(0, <<>>, <<"Different frequencies: " \o ToString(frequency1)
                              \o " vs " \o ToString(frequency2)>>)

\* A comparison that reports two unidentified protocols as a difference.
CompareProtocols_Else(protocol1, protocol2) ==
    IF protocol1 = protocol2 /\ protocol1 # "Unknown"
    THEN Compared(300, <<"Same protocol: " \o protocol1>>, <<>>)
    ELSE Compared(0, <<>>, <<"Different protocols: " \o protocol1
                              \o " vs " \o protocol2>>)

CompareProtocols(protocol1, protocol2) ==
    IF protocol1 = protocol2 /\ protocol1 # "Unknown"
    THEN Compared(300, <<"Same protocol: " \o protocol1>>, <<>>)
    ELSE IF protocol1 # protocol2
    THEN Compared(0, <<>>, <<"Different protocols: " \o protocol1
                              \o " vs " \o protocol2>>)
    ELSE Compared(0, <<>>, <<>>)

CompareSignalTypes(type1, type2) ==
    IF type1 = type2
    THEN Compared(200, <<"Same signal type: " \o type1>>, <<>>)
    ELSE Compared(0, <<>>, <<"Different signal types: " \o type1
                              \o " vs " \o type2>>)

\* A comparison of the bit counts without the absolute value.
CompareBitLengths_Signed(bits1, bits2) ==
    IF bits1 - bits2 <= 2
    THEN Compared(100, <<"Similar bit lengths">>, <<>>)
    ELSE Compared(0, <<>>, <<"Different bit lengths: " \o ToString(bits1)
                              \o " vs " \o ToString(bits2)>>)

CompareBitLengths(bits1, bits2) ==
    IF Abs(bits1 - bits2) <= 2
    THEN Compared(100, <<"Similar bit lengths">>, <<>>)
    ELSE Compared(0, <<>>, <<"Different bit lengths: " \o ToString(bits1)
                              \o " vs " \o ToString(bits2)>>)

\* A comparison that reports two undetermined encodings as a difference.
CompareEncodings_Known(enc1, enc2) ==
    IF enc1 = enc2 /\ enc1 # "unknown"
    THEN Compared(100, <<"Same encoding: " \o enc1>>, <<>>)
    ELSE Compared(0, <<>>, <<"Different encodings: " \o enc1
                              \o " vs " \o enc2>>)

CompareEncodings(enc1, enc2) ==
    IF enc1 = enc2
    THEN Compared(100, <<"Same encoding: " \o enc1>>, <<>>)
    ELSE Compared(0, <<>>, <<"Different encodings: " \o enc1
                              \o " vs " \o enc2>>)

\* similarity_score += weight and the appends of the first n comparisons.
RECURSIVE Tally(_, _)
Tally(comparisons, n) ==
    IF n = 0 THEN [score |-> 0, similarities |-> <<>>, differences |-> <<>>]
    ELSE LET before == Tally(comparisons, n - 1)
             step == comparisons[n]
         IN [score |-> IF step.weight > 0
                       THEN FloatAdd(before.score, step.weight)
                       ELSE before.score,
             similarities |-> before.similarities \o step.similarities,
             differences |-> before.differences \o step.differences]

\* compare_signals after the two classify_signal calls.
compare_classified(first, second, c1, c2) ==
    LET comparisons ==
            <<CompareFrequencies(first.frequency, second.frequency),
              CompareProtocols(
                  Get(c1.protocol_info, "identified_protocol", "Unknown"),
                  Get(c2.protocol_info, "identified_protocol", "Unknown")),
              CompareSignalTypes(c1.signal_type, c2.signal_type),
              CompareBitLengths(Get(c1.characteristics, "decoded_bits", 0),
                                Get(c2.characteristics, "decoded_bits", 0)),
              CompareEncodings(Get(c1.characteristics, "encoding", "unknown"),
                               Get(c2.characteristics, "encoding", "unknown"))>>
        tally == Tally(comparisons, 5)
    IN [same_device_probability |-> tally.score,
        differences |-> tally.differences,
        similarities |-> tally.similarities,
        analysis |-> [signal1_type |-> c1.signal_type,
                      signal2_type |-> c2.signal_type,
                      similarity_score |-> tally.score]]

compare_signals(first, second) ==
    compare_classified(first, second, classify_signal(first), classify_signal(second))

\* The captures compared: frequencies on both sides of the 1 kHz limit, and
\* trains that decode to 0, 4, 12, 16, 24 and 68 OOK bits and to 9 and 11
\* Manchester bits.
CompareFrequencyValues == {315000000, 433920000, 433920999, 433921000}

CompareTrains ==
    {<<>>, <<1>>, <<1, 2>>, Rep(<<3, 1>>, 9), Rep(<<3, 1>>, 12),
     Rep(<<3, 1>>, 13), Rep(<<3, 1>>, 24), Rep(<<3, 1>>, 66)}

CompareLongTrains ==
    {Padding(500) \o ManchesterTrain(DefaultPreamble \o <<1>>),
     Padding(500) \o ManchesterTrain(DefaultPreamble \o <<1, 0, 1>>)}

CompareCaptures ==
    {[frequency |-> f, raw_pulses |-> p] :
        f \in CompareFrequencyValues, p \in CompareTrains}
    \cup {[frequency |-> 433920000, raw_pulses |-> p] : p \in CompareLongTrains}

Pending == [pending |-> TRUE]

CompareInit ==
    /\ PipelineNotInUse
    /\ HelpersNotInUse
    /\ ReaderNotInUse
    /\ ConcurrentNotInUse
    /\ ChunkNotInUse
    /\ data1 \in CompareCaptures
    /\ data2 \in CompareCaptures
    /\ class1 = Pending
    /\ class2 = Pending
    /\ comparison = Pending

\* class1 = classify_signal(data1), then class2 = classify_signal(data2).
ClassifyCapture ==
    /\ class2 = Pending
    /\ \E classified \in
            {classify_signal(IF class1 = Pending THEN data1 ELSE data2)} :
          IF class1 = Pending
          THEN class1' = classified /\ class2' = class2
          ELSE class2' = classified /\ class1' = class1
    /\ UNCHANGED <<data1, data2, comparison,
                   pipeline_vars, helper_vars, reader_vars, concurrent_vars, chunk_vars>>

CompareClassified ==
    /\ class2 # Pending
    /\ comparison = Pending
    /\ comparison' = compare_classified(data1, data2, class1, class2)
    /\ UNCHANGED <<data1, data2, class1, class2,
                   pipeline_vars, helper_vars, reader_vars, concurrent_vars, chunk_vars>>

CompareNext ==
    \/ ClassifyCapture
    \/ CompareClassified

CompareSpec == CompareInit /\ [][CompareNext]_vars

\* ------------------------------------------------- interleaved analyses
\* Several analyses, each of its own file: parse_sub_file, then the steps of
\* classify_signal.  Every analysis has its own locals; the only object they
\* all read is the module-level catalog.
Analyses == {"first", "second"}

\* The tokens of the RAW_Data line a capture of these pulses is stored as:
\* positive and negative durations in turn.
RawDataTokens(pulses) ==
    [i \in 1..Len(pulses) |->
        IF i % 2 = 1 THEN <<DigitChars[pulses[i] + 1]>>
        ELSE <<"-", DigitChars[pulses[i] + 1]>>]

CaptureFile(pulses) ==
    [exists |-> TRUE,
     lines |-> <<TextLine("Frequency", <<"4", "3", "3", "9", "2", "0", "0", "0", "0">>),
                 RawDataLine(RawDataTokens(pulses))>>]

AnalysedFiles ==
    {[exists |-> FALSE],
     [exists |-> TRUE,
      lines |-> <<TextLine("Frequency", <<"3", "1", "5", "x">>),
                  RawDataLine(RawDataTokens(<<3, 1>>))>>],
     [exists |-> TRUE, lines |-> <<TextLine("Key", <<"A", "1", " ", "0", "F">>)>>],
     CaptureFile(<<1, 2>>),
     CaptureFile(Rep(<<3, 1>>, 12)),
     CaptureFile(Rep(<<3, 1>>, 64)),
     CaptureFile(Rep(<<3, 1>>, 66))}

NewAnalysis(f) ==
    [file |-> f, pc |-> "start", error |-> "none", data |-> NewSubFileData,
     protocol_info |-> NoIdentification, decoded |-> NoDecode,
     characteristics |-> NoCharacteristics,
     classification |-> NewClassification]

ConcurrentInit ==
    /\ PipelineNotInUse
    /\ HelpersNotInUse
    /\ ReaderNotInUse
    /\ CompareNotInUse
    /\ ChunkNotInUse
    /\ \E files \in [Analyses -> AnalysedFiles] :
          analyses = [w \in Analyses |-> NewAnalysis(files[w])]
    /\ signature_catalog = PROTOCOL_SIGNATURES

\* parse_sub_file: an exception ends this analysis.
Ingest(w) ==
    /\ analyses[w].pc = "start"
    /\ LET outcome == parse_sub_file(analyses[w].file)
       IN analyses' =
             IF outcome.outcome = "returned"
             THEN [analyses EXCEPT ![w].pc = "parsed", ![w].data = outcome.data]
             ELSE [analyses EXCEPT ![w].pc = "failed",
                                   ![w].error = outcome.outcome]
    /\ UNCHANGED <<signature_catalog, pipeline_vars, helper_vars, reader_vars,
                   compare_vars, chunk_vars>>

AnalysisNoData(w) ==
    /\ analyses[w].pc = "parsed"
    /\ analyses[w].data.raw_pulses = <<>>
    /\ analyses' =
          [analyses EXCEPT
              ![w].classification.reasoning = <<"No signal data available">>,
              ![w].pc = "classified"]
    /\ UNCHANGED <<signature_catalog, pipeline_vars, helper_vars, reader_vars,
                   compare_vars, chunk_vars>>

AnalysisIdentify(w) ==
    /\ analyses[w].pc = "parsed"
    /\ analyses[w].data.raw_pulses # <<>>
    /\ analyses' =
          [analyses EXCEPT
              ![w].protocol_info =
                  identify_against(signature_catalog, analyses[w].data),
              ![w].pc = "identified"]
    /\ UNCHANGED <<signature_catalog, pipeline_vars, helper_vars, reader_vars,
                   compare_vars, chunk_vars>>

\* decode_signal keeping its result in one place that every analysis reads.
AnalysisDecode_Shared(w) ==
    /\ analyses[w].pc = "identified"
    /\ analyses' =
          [v \in Analyses |->
              IF v = w
              THEN [analyses[v] EXCEPT
                       !.decoded = decode_signal(analyses[w].data, "auto"),
                       !.pc = "decoded"]
              ELSE [analyses[v] EXCEPT
                       !.decoded = decode_signal(analyses[w].data, "auto")]]
    /\ UNCHANGED <<signature_catalog, pipeline_vars, helper_vars, reader_vars,
                   compare_vars, chunk_vars>>

AnalysisDecode(w) ==
    /\ analyses[w].pc = "identified"
    /\ analyses' =
          [analyses EXCEPT
              ![w].decoded = decode_signal(analyses[w].data, "auto"),
              ![w].pc = "decoded"]
    /\ UNCHANGED <<signature_catalog, pipeline_vars, helper_vars, reader_vars,
                   compare_vars, chunk_vars>>

AnalysisCharacteristics(w) ==
    /\ analyses[w].pc = "decoded"
    /\ analyses' =
          [analyses EXCEPT
              ![w].characteristics =
                  analyze_classification_characteristics(
                      analyses[w].data, analyses[w].decoded,
                      analyses[w].protocol_info),
              ![w].pc = "analyzed"]
    /\ UNCHANGED <<signature_catalog, pipeline_vars, helper_vars, reader_vars,
                   compare_vars, chunk_vars>>

AnalysisRules(w) ==
    /\ analyses[w].pc = "analyzed"
    /\ analyses' =
          [analyses EXCEPT
              ![w].classification =
                  apply_classification_rules(analyses[w].characteristics),
              ![w].pc = "classified"]
    /\ UNCHANGED <<signature_catalog, pipeline_vars, helper_vars, reader_vars,
                   compare_vars, chunk_vars>>

ConcurrentNext ==
    \E w \in Analyses :
        \/ Ingest(w)
        \/ AnalysisNoData(w)
        \/ AnalysisIdentify(w)
        \/ AnalysisDecode(w)
        \/ AnalysisCharacteristics(w)
        \/ AnalysisRules(w)

ConcurrentSpec == ConcurrentInit /\ [][ConcurrentNext]_vars

\* -------------------------------------- DocumentProcessor.chunk_content
\* config.CHUNK_SIZE and config.CHUNK_OVERLAP with the environment unset.
CHUNK_SIZE == 1000

CHUNK_OVERLAP == 200

\* A parameter that is None or 0 is replaced by the configured value.
OrDefault(value, default) == IF value = 0 THEN default ELSE value

\* text[i:j] for integers i and j of either sign.
SliceIndex(k, n) ==
    IF k < 0 THEN (IF k + n < 0 THEN 0 ELSE k + n)
    ELSE IF k > n THEN n ELSE k

PySlice(text, i, j) ==
    SubSeq(text, SliceIndex(i, Len(text)) + 1, SliceIndex(j, Len(text)))

\* text.rfind(' '): the 0-based index of the last blank, -1 if none.
rfind(text) ==
    LET blanks == {i \in 1..Len(text) : text[i] = " "}
    IN IF blanks = {} THEN -1
       ELSE (CHOOSE i \in blanks : \A j \in blanks : j <= i) - 1

\* The end of the chunk that starts at start: start + chunk_size, moved back
\* to the last blank of the chunk when the content goes on after the chunk
\* and last_space > chunk_size * 0.8.
ChunkEnd(content, start, chunk_size) ==
    LET end == start + chunk_size
        last_space == rfind(PySlice(content, start, end))
    IN IF end < Len(content) /\ 10 * last_space > 8 * chunk_size
       THEN start + last_space
       ELSE end

\* The contents chunked and the parameters given: 0 stands for None.
MaxContent == 7

MaxChunk == 6

MaxIterations == 12

Contents == SeqsUpTo({"a", " "}, MaxContent)

ChunkInit ==
    /\ PipelineNotInUse
    /\ HelpersNotInUse
    /\ ReaderNotInUse
    /\ CompareNotInUse
    /\ ConcurrentNotInUse
    /\ \E content \in Contents, size \in 0..MaxChunk, lap \in 0..MaxChunk :
          chunking = [content |-> content,
                      chunk_size |-> size, overlap |-> lap,
                      pc |-> "called", start |-> 0, chunks |-> <<>>]

\* A chunk_content that returns the content whole up to chunk_size + overlap.
ChunkEnter_Lenient ==
    /\ chunking.pc = "called"
    /\ LET chunk_size == OrDefault(chunking.chunk_size, CHUNK_SIZE)
           overlap == OrDefault(chunking.overlap, CHUNK_OVERLAP)
       IN chunking' =
             IF Len(chunking.content) <= chunk_size + overlap
             THEN [chunking EXCEPT !.chunk_size = chunk_size,
                                   !.overlap = overlap,
                                   !.chunks = <<chunking.content>>,
                                   !.pc = "returned"]
             ELSE [chunking EXCEPT !.chunk_size = chunk_size,
                                   !.overlap = overlap,
                                   !.pc = "loop"]
    /\ UNCHANGED <<pipeline_vars, helper_vars, reader_vars, compare_vars,
                   concurrent_vars>>

\* The defaults, and the return of a content of at most chunk_size characters.
ChunkEnter ==
    /\ chunking.pc = "called"
    /\ LET chunk_size == OrDefault(chunking.chunk_size, CHUNK_SIZE)
           overlap == OrDefault(chunking.overlap, CHUNK_OVERLAP)
       IN chunking' =
             IF Len(chunking.content) <= chunk_size
             THEN [chunking EXCEPT !.chunk_size = chunk_size,
                                   !.overlap = overlap,
                                   !.chunks = <<chunking.content>>,
                                   !.pc = "returned"]
             ELSE [chunking EXCEPT !.chunk_size = chunk_size,
                                   !.overlap = overlap,
                                   !.pc = "loop"]
    /\ UNCHANGED <<pipeline_vars, helper_vars, reader_vars, compare_vars,
                   concurrent_vars>>

\* One iteration of the while loop; the loop is left when start >= len.
ChunkIterate ==
    /\ chunking.pc = "loop"
    /\ Len(chunking.chunks) < MaxIterations
    /\ LET end == ChunkEnd(chunking.content, chunking.start, chunking.chunk_size)
           chunk == PySlice(chunking.content, chunking.start, end)
           start == end - chunking.overlap
       IN chunking' =
             [chunking EXCEPT
                 !.chunks = Append(chunking.chunks, strip(chunk)),
                 !.start = start,
                 !.pc = IF start >= Len(chunking.content)
                        THEN "returned" ELSE "loop"]
    /\ UNCHANGED <<pipeline_vars, helper_vars, reader_vars, compare_vars,
                   concurrent_vars>>

ChunkNext ==
    \/ ChunkEnter
    \/ ChunkIterate

ChunkSpec == ChunkInit /\ [][ChunkNext]_vars

\* --------------------------------------------------------------- properties
Identified == pc \in {"identified", "decoded", "analyzed", "classified"}

Classified == pc = "classified" /\ data.raw_pulses # <<>>

\* The candidate the selection rule of auto mode names: the strictly greatest
\* score, and among equal scores the first of OOK, Manchester, PWM.
PriorityWinner(ook, manchester, pwm) ==
    LET score(bits) == IF Len(bits) \in 8..1000 THEN Len(bits) ELSE 0
    IN IF score(ook) >= score(manchester) /\ score(ook) >= score(pwm)
       THEN [encoding |-> "ook", bits |-> ook]
       ELSE IF score(manchester) >= score(pwm)
       THEN [encoding |-> "manchester", bits |-> manchester]
       ELSE [encoding |-> "pwm", bits |-> pwm]

\* C1: decode_signal in auto mode returns the candidate of the OOK, Manchester
\* and PWM decoders whose score (its bit count when in [8,1000], else 0) is
\* strictly greatest, and on equal scores the first of OOK, Manchester, PWM.
\* The returned bit list is the winner's; when no preamble is found it has
\* been extended with at most three zeros by the hexadecimal packing.
C1_AutoSelectsByPriority ==
    pc = "decoded" =>
        LET signal == decoded.binary_signal
            winner == PriorityWinner(decode_ook(signal), decode_manchester(signal),
                                     decode_pwm(signal))
            n == Len(winner.bits)
        IN /\ decoded.encoding = winner.encoding
           /\ Len(decoded.bits) >= n
           /\ SubSeq(decoded.bits, 1, n) = winner.bits
           /\ Len(decoded.bits) - n \in 0..3
           /\ \A i \in (n + 1)..Len(decoded.bits) : decoded.bits[i] = 0
           /\ decoded.preamble_found => decoded.bits = winner.bits

\* A capture whose OOK and PWM candidates score 0 (more than 1000 bits) and
\* whose Manchester candidate is within [8,1000], so that Manchester wins.
C1_Witness ==
    /\ pc = "decoded"
    /\ decoded.encoding = "manchester"
    /\ Len(decode_ook(decoded.binary_signal)) > 1000
    /\ Len(decoded.bits) \in 8..1000

\* C2: decode_ook without an explicit threshold and decode_pwm return the same
\* bits for every thresholded sample sequence: one bit per level-1 sample, 1
\* when its duration exceeds the median of the level-1 durations only.
C2_OokEqualsPwm ==
    pc = "decoded" =>
        LET signal == decoded.binary_signal
            high == SelectSeq(signal, LAMBDA sample : sample[2] = 1)
            durations == [i \in 1..Len(high) |-> high[i][1]]
            expected == [i \in 1..Len(high) |->
                            IF 2 * durations[i] > Median2(durations) THEN 1 ELSE 0]
        IN /\ decode_ook(signal) = decode_pwm(signal)
           /\ decode_ook(signal) = expected
           /\ decode_pwm(signal) = expected

\* C4: a capture at 433920000 Hz whose auto-mode decoding is OOK with 12 bits
\* and no preamble gets fixed_score > rolling_score and is classified Fixed or
\* Uncertain, never Rolling.
C4_TwelveOokBitsAreFixed ==
    (/\ Classified
     /\ data.frequency = 433920000
     /\ decoded.encoding = "ook"
     /\ Len(decoded.bits) = 12
     /\ ~decoded.preamble_found)
    => /\ classification.fixed_score > classification.rolling_score
       /\ classification.signal_type \in {"Fixed", "Uncertain"}
       /\ classification.signal_type # "Rolling"

\* Such a capture, classified.
C4_Witness ==
    /\ Classified
    /\ data.frequency = 433920000
    /\ decoded.encoding = "ook"
    /\ Len(decoded.bits) = 12
    /\ ~decoded.preamble_found
    /\ classification.fixed_score > classification.rolling_score
    /\ classification.signal_type = "Fixed"

\* The frequency subscore measured from the nearest boundary of the range, in
\* the units of FrequencyScore.
NearestBoundaryScore(frequency, lo, hi) ==
    IF lo <= frequency /\ frequency <= hi THEN 400
    ELSE IF frequency < lo /\ lo - frequency < 50000000 THEN 200
    ELSE IF frequency > hi /\ frequency - hi < 50000000 THEN 200
    ELSE 0

\* C5: the frequency subscore of a signature with range [lo,hi] is 0.4 inside
\* the range, else 0.2 within 50 MHz of the nearest boundary (lo below the
\* range, hi above it), else 0.
C5_FrequencySubscore ==
    pc = "identified" =>
        \A i \in 1..Len(PROTOCOL_SIGNATURES) :
            LET signature == PROTOCOL_SIGNATURES[i]
            IN FrequencyScore(data.frequency, signature)
                 = NearestBoundaryScore(data.frequency, signature.freq_min,
                                        signature.freq_max)

\* A frequency above a range and less than 50 MHz from its upper boundary.
C5_NearUpperBoundary ==
    /\ pc = "identified"
    /\ \E i \in 1..Len(PROTOCOL_SIGNATURES) :
          /\ data.frequency > PROTOCOL_SIGNATURES[i].freq_max
          /\ data.frequency - PROTOCOL_SIGNATURES[i].freq_max < 50000000

\* C6: the match list of identify_protocol holds exactly the catalog
\* signatures whose confidence exceeds 0.1, each once and with its confidence,
\* which lies in [0,1]; the list is in non-increasing order of confidence; the
\* identified protocol and its confidence are those of the first match, and
\* are "Unknown" and 0.0 exactly when the list is empty.
C6_MatchList ==
    (Identified /\ data.raw_pulses # <<>>) =>
        LET matches == protocol_info.matches
            catalog == 1..Len(PROTOCOL_SIGNATURES)
            conf(i) == calculate_protocol_confidence(
                           data, protocol_info.decoded_data, PROTOCOL_SIGNATURES[i])
            qualifying == {i \in catalog : conf(i) > 100}
        IN /\ Len(matches) = Cardinality(qualifying)
           /\ \A i \in qualifying : \E p \in 1..Len(matches) :
                 /\ matches[p].protocol = PROTOCOL_SIGNATURES[i].name
                 /\ matches[p].confidence = conf(i)
           /\ \A p \in 1..Len(matches) :
                 /\ matches[p].confidence >= 0
                 /\ matches[p].confidence <= 1000
                 /\ \E i \in qualifying :
                       matches[p].protocol = PROTOCOL_SIGNATURES[i].name
           /\ \A p \in 1..(Len(matches) - 1) :
                 matches[p].confidence >= matches[p + 1].confidence
           /\ matches # <<>> =>
                 /\ protocol_info.identified_protocol = matches[1].protocol
                 /\ protocol_info.confidence = matches[1].confidence
           /\ matches = <<>> <=>
                 /\ protocol_info.identified_protocol = "Unknown"
                 /\ protocol_info.confidence = 0

\* A capture with several matches of different confidence, a signature at
\* exactly 0.1 that is left out, and a first match that is not the first
\* signature of the catalog.
C6_Witness ==
    /\ pc = "identified"
    /\ Len(protocol_info.matches) >= 2
    /\ protocol_info.matches[1].confidence > protocol_info.matches[2].confidence
    /\ protocol_info.identified_protocol # PROTOCOL_SIGNATURES[1].name
    /\ \E i \in 1..Len(PROTOCOL_SIGNATURES) :
          calculate_protocol_confidence(
              data, protocol_info.decoded_data, PROTOCOL_SIGNATURES[i]) = 100

\* The bit counts the second half of C7 ranges over.
BitCounts == 0..80

\* C7: with the signature, the decoded encoding and the preamble flag fixed,
\* the protocol confidence does not decrease when the frequency moves closer
\* to the midpoint of the signature's range (bit count fixed), nor when
\* |decoded bit count - typical bit length| decreases (frequency fixed).
C7_ConfidenceMonotone ==
    pc = "identified" =>
        \A i \in 1..Len(PROTOCOL_SIGNATURES) :
            LET signature == PROTOCOL_SIGNATURES[i]
                info == protocol_info.decoded_data
                bit_count == Len(DecodedBits(info))
                \* twice the distance to the midpoint (lo + hi) / 2
                distance(f) == Abs(2 * f - (signature.freq_min + signature.freq_max))
                difference(n) == Abs(n - signature.typical_bit_length)
                confidence(f, n) ==
                    Confidence(f, n, DecodedEncoding(info), DecodedPreamble(info),
                               signature)
            IN /\ \A closer \in Frequencies :
                     distance(closer) <= distance(data.frequency)
                     => confidence(closer, bit_count)
                          >= confidence(data.frequency, bit_count)
               /\ \A nearer \in BitCounts :
                     difference(nearer) <= difference(bit_count)
                     => confidence(data.frequency, nearer)
                          >= confidence(data.frequency, bit_count)

\* Two frequencies on either side of a range, the one nearer to its midpoint
\* being the one above it.
C7_CloserAbove ==
    /\ pc = "identified"
    /\ \E i \in 1..Len(PROTOCOL_SIGNATURES) : \E closer \in Frequencies :
          LET signature == PROTOCOL_SIGNATURES[i]
              distance(f) == Abs(2 * f - (signature.freq_min + signature.freq_max))
          IN /\ data.frequency < signature.freq_min
             /\ closer > signature.freq_max
             /\ distance(closer) < distance(data.frequency)

\* C8: when rolling_score + fixed_score is 0 the result is Unknown with
\* confidence 0.0; otherwise it is Rolling with confidence
\* rolling/(rolling+fixed) if that ratio exceeds 0.6, else Fixed with
\* confidence fixed/(rolling+fixed) if that ratio exceeds 0.6, else Uncertain
\* with the larger of the two ratios as confidence.
C8_Resolution ==
    Classified =>
        LET rolling == classification.rolling_score
            fixed == classification.fixed_score
            larger == IF rolling >= fixed THEN rolling ELSE fixed
        IN IF rolling = 0 /\ fixed = 0
           THEN /\ classification.signal_type = "Unknown"
                /\ classification.confidence = ZeroConfidence
           ELSE IF ExceedsSixTenths(rolling, fixed)
           THEN /\ classification.signal_type = "Rolling"
                /\ classification.confidence = Quotient(rolling, rolling, fixed)
           ELSE IF ExceedsSixTenths(fixed, rolling)
           THEN /\ classification.signal_type = "Fixed"
                /\ classification.confidence = Quotient(fixed, rolling, fixed)
           ELSE /\ classification.signal_type = "Uncertain"
                /\ classification.confidence = Quotient(larger, rolling, fixed)

\* A classification whose larger ratio is above one half and not above 0.6.
C8_Witness ==
    /\ Classified
    /\ classification.signal_type = "Uncertain"
    /\ classification.rolling_score > classification.fixed_score
    /\ classification.confidence.num = classification.rolling_score

\* The reasoning strings of rules 1 to 6.
RuleStrings ==
    <<{"Protocol " \o name \o " is typically rolling code" : name \in RollingProtocols}
        \cup {"Protocol " \o name \o " is typically fixed code" : name \in FixedProtocols},
      {"Very long bit length suggests rolling code",
       "Long bit length suggests rolling code",
       "Shorter bit length suggests fixed code"},
      {"Complex encoding (PWM/Manchester) often used in rolling codes",
       "Simple encoding (OOK) often used in fixed codes"},
      {"High signal complexity suggests rolling code",
       "Low signal complexity suggests fixed code"},
      {"High entropy suggests rolling code", "Low entropy suggests fixed code"},
      {"High pattern repetition suggests fixed code",
       "Low pattern repetition suggests rolling code"}>>

\* C9: the reasoning of a classification lists the strings of the triggered
\* rules in the rule order 1 to 6, at most one per rule and none for rule 7,
\* followed by the mixed-indicators note exactly when the result is Uncertain;
\* no rule's string precedes the string of a lower-numbered rule.
C9_ReasoningOrder ==
    Classified =>
        LET reasoning == classification.reasoning
            uncertain == classification.signal_type = "Uncertain"
            trace == IF uncertain /\ reasoning # <<>>
                     THEN SubSeq(reasoning, 1, Len(reasoning) - 1) ELSE reasoning
            triggered == <<Rule1(characteristics), Rule2(characteristics),
                           Rule3(characteristics), Rule4(characteristics),
                           Rule5(characteristics), Rule6(characteristics)>>
            IsOf(k, text) == text \in RuleStrings[k]
        IN /\ uncertain => (reasoning # <<>> /\ reasoning[Len(reasoning)] = MixedNote)
           /\ \A i \in 1..Len(trace) : \E k \in 1..6 : IsOf(k, trace[i])
           /\ \A i, j \in 1..Len(trace) : \A k, l \in 1..6 :
                 (i < j /\ IsOf(k, trace[i]) /\ IsOf(l, trace[j])) => k < l
           /\ \A k \in 1..6 :
                 IF triggered[k].target = "none"
                 THEN \A i \in 1..Len(trace) : ~IsOf(k, trace[i])
                 ELSE /\ Len(triggered[k].reasons) = 1
                      /\ triggered[k].reasons[1] \in RuleStrings[k]
                      /\ \E i \in 1..Len(trace) : trace[i] = triggered[k].reasons[1]
           /\ Rule7(characteristics).reasons = <<>>

\* An Uncertain classification in which rule 7 and at least four of the
\* rules 1 to 6 have triggered.
C9_Witness ==
    /\ Classified
    /\ classification.signal_type = "Uncertain"
    /\ Rule7(characteristics).target = "rolling"
    /\ Len(classification.reasoning) >= 5
    /\ classification.reasoning[Len(classification.reasoning)] = MixedNote

\* C10 as stated: frequency_category uses half-open buckets, low_uhf for
\* 300 MHz <= f < 350 MHz, mid_uhf for 350 MHz <= f < 400 MHz, high_uhf for
\* 400 MHz <= f < 450 MHz and other elsewhere, so that 350000000 is mid_uhf,
\* 400000000 is high_uhf and 450000000 is other.
C10_HalfOpenBuckets ==
    pc = "analyzed" =>
        LET f == data.frequency
            category == characteristics.frequency_category
        IN /\ (300000000 <= f /\ f < 350000000) => category = "low_uhf"
           /\ (350000000 <= f /\ f < 400000000) => category = "mid_uhf"
           /\ (400000000 <= f /\ f < 450000000) => category = "high_uhf"
           /\ (f < 300000000 \/ f >= 450000000) => category = "other"

\* C10 as amended: the buckets are closed at both ends and the lower bucket
\* wins on a shared boundary, low_uhf for 300 MHz <= f <= 350 MHz, mid_uhf for
\* 350 MHz < f <= 400 MHz, high_uhf for 400 MHz < f <= 450 MHz and other
\* elsewhere, so that 350000000 is low_uhf, 400000000 is mid_uhf and
\* 450000000 is high_uhf.
C10_ClosedBuckets ==
    pc = "analyzed" =>
        LET f == data.frequency
            category == characteristics.frequency_category
        IN /\ (300000000 <= f /\ f <= 350000000) => category = "low_uhf"
           /\ (350000000 < f /\ f <= 400000000) => category = "mid_uhf"
           /\ (400000000 < f /\ f <= 450000000) => category = "high_uhf"
           /\ (f < 300000000 \/ f > 450000000) => category = "other"
           /\ f = 350000000 => category = "low_uhf"
           /\ f = 400000000 => category = "mid_uhf"
           /\ f = 450000000 => category = "high_uhf"

\* A capture at the upper boundary of the last bucket, categorised.
C10_Witness ==
    /\ pc = "analyzed"
    /\ data.frequency = 450000000
    /\ characteristics.frequency_category = "high_uhf"

\* The number of length-l windows of bits that follow the first one, at the
\* offsets l, 2l, ..., and equal it.
MatchingWindows(bits, l) ==
    Cardinality({w \in 1..(Len(bits) \div l - 1) :
        \A i \in 1..l : bits[w * l + i] = bits[i]})

\* ratio is the greatest of matching windows / total windows over lengths,
\* and 0.0 when there is no length.
IsGreatestRatio(ratio, bits, lengths) ==
    /\ \A l \in lengths :
          MatchingWindows(bits, l) * ratio[2] <= ratio[1] * (Len(bits) \div l)
    /\ \/ \E l \in lengths :
             MatchingWindows(bits, l) * ratio[2] = ratio[1] * (Len(bits) \div l)
       \/ (ratio[1] = 0 /\ \A l \in lengths : MatchingWindows(bits, l) = 0)

\* C11 as stated: pattern_repetition of n >= 8 bits is the maximum, over the
\* period lengths L from 2 up to and including min(15, floor(n/2)), of the
\* number of non-overlapping length-L windows equal to the first one divided
\* by the number of length-L windows; it is 0.0 when n < 8.
C11_UpToHalfLength ==
    (call.op = "_analyze_pattern_repetition") =>
        LET n == Len(call.bits)
            half == n \div 2
        IN IF n < 8 THEN call.result[1] = 0
           ELSE IsGreatestRatio(call.result, call.bits,
                                2..(IF 15 < half THEN 15 ELSE half))

\* C11 as amended: the period lengths are those from 2 up to and including
\* min(15, floor(n/2) - 1), the windows counted are those that follow the
\* first one, and the divisor is floor(n/L); it is 0.0 when n < 8.
C11_BelowHalfLength ==
    (call.op = "_analyze_pattern_repetition") =>
        LET n == Len(call.bits)
            below == n \div 2 - 1
        IN IF n < 8 THEN call.result[1] = 0
           ELSE IsGreatestRatio(call.result, call.bits,
                                2..(IF 15 < below THEN 15 ELSE below))

\* A sequence of two equal halves with no shorter period: the repetition
\* found is 1/4, not the 1/2 of the pattern length n/2.
C11_Witness ==
    /\ call.op = "_analyze_pattern_repetition"
    /\ call.bits = <<1, 0, 0, 0, 1, 0, 0, 0>>
    /\ call.result[1] * 4 = call.result[2]

\* C12: classifying a capture with an empty pulse sequence does not fail and
\* yields signal_type Unknown, confidence 0.0 and a reasoning that contains
\* the entry that no signal data is available.
C12_EmptyCaptureIsUnknown ==
    /\ (pc = "parsed" /\ data.raw_pulses = <<>>) => ENABLED ClassifyNoData
    /\ (pc = "classified" /\ data.raw_pulses = <<>>) =>
          /\ classification.signal_type = "Unknown"
          /\ classification.confidence = ZeroConfidence
          /\ \E i \in 1..Len(classification.reasoning) :
                classification.reasoning[i] = "No signal data available"

\* An empty capture, classified without identification or decoding.
C12_Witness ==
    /\ pc = "classified"
    /\ data.raw_pulses = <<>>
    /\ data.frequency = 433920000
    /\ protocol_info = NoIdentification
    /\ decoded = NoDecode
    /\ classification.reasoning = <<"No signal data available">>

\* The output of the decoder that the result of decode_signal names.
SelectedOutput(result) ==
    CASE result.encoding = "ook" -> decode_ook(result.binary_signal)
      [] result.encoding = "manchester" -> decode_manchester(result.binary_signal)
      [] result.encoding = "pwm" -> decode_pwm(result.binary_signal)

\* C14: bits_to_hex leaves the bit sequence passed to it unchanged, so the
\* bits and the data_bits in the result of decode_signal are exactly the
\* selected decoder's output and its extracted slice, with no padding bits
\* appended.
C14_HexPackingIsPure ==
    pc = "decoded" =>
        LET output == SelectedOutput(decoded)
        IN /\ bits_to_hex(output).bits = output
           /\ decoded.bits = output
           /\ decoded.preamble_found =>
                 decoded.data_bits
                    = extract_data_bits(output, decoded.preamble_index + 8, 24)

\* A decode whose bit count is not a multiple of 4 and has no preamble.
C14_Unaligned ==
    /\ pc = "decoded"
    /\ ~decoded.preamble_found
    /\ Len(SelectedOutput(decoded)) % 4 # 0

\* C15: in the result of decode_signal, when the preamble is found at index p
\* the data bits are exactly bits[p+8 .. min(p+8+24, n)) and hex_data is the
\* hex packing of those data bits; when no preamble is found hex_data is the
\* hex packing of the entire decoded bit sequence.
C15_DataRegion ==
    (pc = "decoded" /\ decoded.bits # <<>>) =>
        LET n == Len(decoded.bits)
            first == decoded.preamble_index + 8
            last == IF first + 24 < n THEN first + 24 ELSE n
            region == [i \in 1..(last - first) |-> decoded.bits[first + i]]
        IN IF decoded.preamble_found
           THEN /\ decoded.data_bits = region
                /\ decoded.hex_data = bits_to_hex(region).hex
           ELSE decoded.hex_data = bits_to_hex(decoded.bits).hex

\* A preamble followed by a data region whose length is not a multiple of 4.
C15_UnalignedRegion ==
    /\ pc = "decoded"
    /\ decoded.preamble_found
    /\ (Len(decoded.bits) - (decoded.preamble_index + 8)) \in {1, 2, 3, 5, 6, 7}

\* C13: every capture that parse_sub_file returns has a non-empty pulse
\* sequence or a non-empty key; a file with no key whose RAW_Data yields no
\* non-zero duration (absent, garbled or all zeros) is rejected with a format
\* error instead of being returned.
C13_ReturnedCaptureHasData ==
    /\ parsed.outcome = "returned" =>
          (parsed.data.raw_pulses # <<>> \/ parsed.data.key # <<>>)
    /\ (/\ parsed.outcome # "pending"
        /\ file.exists
        /\ \A i \in 1..Len(file.lines) :
              /\ file.lines[i].field = "Key" => strip(file.lines[i].text) = <<>>
              /\ file.lines[i].field = "RAW_Data" =>
                    \A j \in 1..Len(file.lines[i].tokens) :
                        IsIntegerText(file.lines[i].tokens[j])
                        => int(file.lines[i].tokens[j]) = 0)
       => parsed.outcome = "ValueError"

\* A parsed file without key whose only RAW_Data values are zeros.
C13_AllZeros ==
    /\ parsed.outcome # "pending"
    /\ file.exists
    /\ Len(file.lines) = 2
    /\ file.lines[1].field = "Frequency"
    /\ file.lines[2] = RawDataLine(<<<<"0">>, <<"-", "0">>>>)

\* C16: for every pair of captures a and b, compare_signals(a, b) and
\* compare_signals(b, a) return the same same_device_probability.
C16_CompareIsSymmetric ==
    comparison # Pending =>
        comparison.same_device_probability
            = compare_signals(data2, data1).same_device_probability

\* Two captures whose bit counts differ by more than 2 in favour of the
\* second, compared with a probability that is neither 0 nor 1.
C16_Witness ==
    /\ comparison # Pending
    /\ class1.characteristics # NoCharacteristics
    /\ class2.characteristics # NoCharacteristics
    /\ class2.characteristics.decoded_bits - class1.characteristics.decoded_bits > 2
    /\ comparison.same_device_probability = 600

\* The double sum of the weights in the order given, from 0.0.
RECURSIVE SumOfWeights(_)
SumOfWeights(weights) ==
    IF weights = <<>> THEN 0
    ELSE FloatAdd(SumOfWeights(SubSeq(weights, 1, Len(weights) - 1)),
                  weights[Len(weights)])

\* C17: in compare_signals each of the five conditions (frequencies within
\* 1000 Hz, same protocol other than Unknown, same signal type, bit counts
\* within 2, same encoding) adds exactly one entry to similarities when it is
\* satisfied and exactly one entry to differences when it is not, except that
\* two Unknown protocols add to neither list; same_device_probability is the
\* sum of the weights 0.3, 0.3, 0.2, 0.1, 0.1 of the satisfied conditions.
C17_CompareEntries ==
    comparison # Pending =>
        LET protocol1 == Get(class1.protocol_info, "identified_protocol", "Unknown")
            protocol2 == Get(class2.protocol_info, "identified_protocol", "Unknown")
            bits1 == Get(class1.characteristics, "decoded_bits", 0)
            bits2 == Get(class2.characteristics, "decoded_bits", 0)
            enc1 == Get(class1.characteristics, "encoding", "unknown")
            enc2 == Get(class2.characteristics, "encoding", "unknown")
            satisfied ==
                <<data1.frequency - data2.frequency < 1000
                      /\ data2.frequency - data1.frequency < 1000,
                  protocol1 = protocol2 /\ protocol1 # "Unknown",
                  class1.signal_type = class2.signal_type,
                  bits1 - bits2 <= 2 /\ bits2 - bits1 <= 2,
                  enc1 = enc2>>
            silent == <<FALSE, protocol1 = "Unknown" /\ protocol2 = "Unknown",
                        FALSE, FALSE, FALSE>>
            weight == <<300, 300, 200, 100, 100>>
            similar ==
                <<"Same frequency", "Same protocol: " \o protocol1,
                  "Same signal type: " \o class1.signal_type,
                  "Similar bit lengths", "Same encoding: " \o enc1>>
            different ==
                <<"Different frequencies: " \o ToString(data1.frequency)
                      \o " vs " \o ToString(data2.frequency),
                  "Different protocols: " \o protocol1 \o " vs " \o protocol2,
                  "Different signal types: " \o class1.signal_type
                      \o " vs " \o class2.signal_type,
                  "Different bit lengths: " \o ToString(bits1)
                      \o " vs " \o ToString(bits2),
                  "Different encodings: " \o enc1 \o " vs " \o enc2>>
            Occurrences(list, entry) ==
                Cardinality({i \in 1..Len(list) : list[i] = entry})
            Holds(k) == satisfied[k]
            Fails(k) == ~satisfied[k] /\ ~silent[k]
            conditions == <<1, 2, 3, 4, 5>>
            held == SelectSeq(conditions, Holds)
        IN /\ \A k \in 1..5 :
                 /\ Occurrences(comparison.similarities, similar[k])
                       = IF Holds(k) THEN 1 ELSE 0
                 /\ Occurrences(comparison.differences, different[k])
                       = IF Fails(k) THEN 1 ELSE 0
           /\ Len(comparison.similarities) = Len(held)
           /\ Len(comparison.differences) = Len(SelectSeq(conditions, Fails))
           /\ comparison.same_device_probability
                 = SumOfWeights([i \in 1..Len(held) |-> weight[held[i]]])

\* Two captures at different frequencies, neither with an identified
\* protocol: four entries in all, none about the protocol.
C17_Witness ==
    /\ comparison # Pending
    /\ Get(class1.protocol_info, "identified_protocol", "Unknown") = "Unknown"
    /\ Get(class2.protocol_info, "identified_protocol", "Unknown") = "Unknown"
    /\ data1.frequency - data2.frequency >= 1000
    /\ Len(comparison.similarities) = 3
    /\ Len(comparison.differences) = 1
    /\ comparison.same_device_probability = 400

\* The bits of a sequence of levels read two at a time from the left.
RECURSIVE PairwiseBits(_)
PairwiseBits(levels) ==
    IF Len(levels) < 2 THEN <<>>
    ELSE LET emitted == IF levels[1] = 1 /\ levels[2] = 0 THEN <<1>>
                        ELSE IF levels[1] = 0 /\ levels[2] = 1 THEN <<0>>
                        ELSE <<>>
         IN emitted \o PairwiseBits(SubSeq(levels, 3, Len(levels)))

\* C19: decode_manchester reads the samples in disjoint consecutive pairs
\* (0,1), (2,3), ...: a pair with levels (1,0) emits bit 1, a pair with
\* levels (0,1) emits bit 0, any other pair emits nothing, and the position
\* always advances by 2; hence the output has at most floor(n/2) bits for an
\* input of n samples.
C19_ManchesterPairs ==
    call.op = "decode_manchester" =>
        /\ call.result = PairwiseBits(call.bits)
        /\ Len(call.result) <= Len(call.bits) \div 2

\* An odd number of samples with a pair without transition followed by a
\* pair with one: fewer bits than pairs, but not none.
C19_Witness ==
    /\ call.op = "decode_manchester"
    /\ Len(call.bits) % 2 = 1
    /\ Len(call.bits) >= 5
    /\ call.bits[1] = call.bits[2]
    /\ call.bits[2] # call.bits[3]
    /\ call.bits[3] # call.bits[4]
    /\ call.result # <<>>
    /\ Len(call.result) < Len(call.bits) \div 2

\* The pattern occurs in the bits at the 0-based index i.
OccursAt(bits, pattern, i) ==
    /\ i >= 0
    /\ i + Len(pattern) <= Len(bits)
    /\ \A j \in 1..Len(pattern) : bits[i + j] = pattern[j]

\* C20: find_preamble returns -1 when the bit sequence is shorter than the
\* pattern or contains no occurrence of it; otherwise it returns the smallest
\* index i with bits[i : i+len(pattern)] equal to the pattern.
C20_FirstOccurrence ==
    call.op = "find_preamble" =>
        LET occurs == \E i \in 0..Len(call.bits) :
                          OccursAt(call.bits, call.pattern, i)
        IN /\ (Len(call.bits) < Len(call.pattern) \/ ~occurs)
                 => call.result = -1
           /\ (Len(call.bits) >= Len(call.pattern) /\ occurs)
                 => /\ OccursAt(call.bits, call.pattern, call.result)
                    /\ \A i \in 0..Len(call.bits) :
                          OccursAt(call.bits, call.pattern, i)
                              => call.result <= i

\* The default pattern found in the last window of the bits, and nowhere
\* before it.
C20_Witness ==
    /\ call.op = "find_preamble"
    /\ call.pattern = DefaultPreamble
    /\ call.result > 0
    /\ call.result = Len(call.bits) - Len(call.pattern)

\* A shorter pattern that occurs twice: the earlier index is returned.
C20_WitnessTwice ==
    /\ call.op = "find_preamble"
    /\ Len(call.pattern) = 6
    /\ call.result > 0
    /\ OccursAt(call.bits, call.pattern, call.result + 2)

\* What an analysis of the file f produces when it runs alone.
AloneIngested(f) == parse_sub_file(f)

AloneResult(f) ==
    LET capture == AloneIngested(f).data
    IN [identification |-> identify_protocol(capture),
        decode |-> decode_signal(capture, "auto"),
        classification |-> classify_signal(capture)]

\* C18: when analyses of independent captures run with their steps
\* interleaved in any order, each analysis produces the same decode,
\* identification and classification as when it runs alone, the signature
\* catalog is never modified, and an ingestion error in one analysis does not
\* change the result of any other.
C18_InterleavingIsHarmless ==
    /\ signature_catalog = PROTOCOL_SIGNATURES
    /\ \A w \in Analyses :
          LET a == analyses[w]
              ingested == AloneIngested(a.file)
          IN /\ a.pc = "failed" =>
                    /\ ingested.outcome # "returned"
                    /\ a.error = ingested.outcome
             /\ a.pc \notin {"start", "failed"} =>
                    /\ ingested.outcome = "returned"
                    /\ a.data = ingested.data
             /\ a.pc \in {"identified", "decoded", "analyzed"} =>
                    a.protocol_info = AloneResult(a.file).identification
             /\ a.pc \in {"decoded", "analyzed"} =>
                    a.decoded = AloneResult(a.file).decode
             /\ a.pc = "classified" =>
                    LET alone == AloneResult(a.file)
                    IN /\ a.classification.signal_type
                             = alone.classification.signal_type
                       /\ a.classification.confidence
                             = alone.classification.confidence
                       /\ a.classification.reasoning
                             = alone.classification.reasoning
                       /\ a.data.raw_pulses # <<>> =>
                             /\ a.protocol_info = alone.identification
                             /\ a.protocol_info
                                   = alone.classification.protocol_info
                             /\ a.decoded = alone.decode
                             /\ a.characteristics
                                   = alone.classification.characteristics

\* One analysis has ended with an ingestion error while the other, of a
\* different capture, was between its decode and its classification, and
\* that other one is now classified as a rolling code.
C18_Witness ==
    /\ analyses["first"].pc = "failed"
    /\ analyses["first"].error = "ValueError"
    /\ analyses["second"].pc = "classified"
    /\ analyses["second"].classification.signal_type = "Rolling"
    /\ analyses["second"].decoded.bits # <<>>

\* Two analyses of different captures, one decoded and not yet classified
\* while the other has decoded something else.
C18_WitnessInterleaved ==
    /\ analyses["first"].pc = "decoded"
    /\ analyses["second"].pc = "analyzed"
    /\ analyses["first"].decoded # analyses["second"].decoded

\* The uppercase hexadecimal digit of a value from 0 to 15.
UppercaseDigit(value) ==
    IF value < 10 THEN DigitChars[value + 1]
    ELSE <<"A", "B", "C", "D", "E", "F">>[value - 9]

\* Bit i (0-based) of the sequence, 0 beyond its end.
BitOrZero(b, i) == IF i < Len(b) THEN b[i + 1] ELSE 0

\* C21: bits_to_hex of a bit sequence of length n returns ceil(n/4)
\* uppercase hex digits, where digit k has value
\* 8*b[4k] + 4*b[4k+1] + 2*b[4k+2] + b[4k+3] with missing trailing bits
\* taken as 0; the empty sequence gives the empty string and [1,0,1,0]
\* gives "A".
C21_HexDigits ==
    call.op = "bits_to_hex" =>
        LET b == call.bits
            n == Len(b)
        IN /\ Len(call.result) = (n + 3) \div 4
           /\ \A k \in 0..(Len(call.result) - 1) :
                 call.result[k + 1] =
                     UppercaseDigit(8 * BitOrZero(b, 4 * k)
                                    + 4 * BitOrZero(b, 4 * k + 1)
                                    + 2 * BitOrZero(b, 4 * k + 2)
                                    + BitOrZero(b, 4 * k + 3))
           /\ b = <<>> => call.result = <<>>
           /\ b = <<1, 0, 1, 0>> => call.result = <<"A">>

\* Ten bits whose last nibble is incomplete: three digits, the first a
\* letter, the last read with two missing bits.
C21_Witness ==
    /\ call.op = "bits_to_hex"
    /\ call.bits = <<1, 0, 1, 1, 0, 0, 0, 1, 1, 1>>
    /\ call.result = <<"B", "1", "C">>

\* C22: whenever chunk_content returns for a content longer than chunk_size,
\* it returns more than one chunk and every returned chunk has at most
\* chunk_size + overlap characters.
C22_ChunkSizes ==
    (chunking.pc = "returned" /\ Len(chunking.content) > chunking.chunk_size) =>
        /\ Len(chunking.chunks) > 1
        /\ \A k \in 1..Len(chunking.chunks) :
              Len(chunking.chunks[k]) <= chunking.chunk_size + chunking.overlap

\* A content of seven characters cut at its blank with chunk_size 6 and
\* overlap 1: two chunks, the first ended at the word boundary.
C22_Witness ==
    /\ chunking.pc = "returned"
    /\ chunking.content = <<"a", "a", "a", "a", "a", " ", "a">>
    /\ chunking.chunk_size = 6
    /\ chunking.overlap = 1
    /\ chunking.chunks = <<<<"a", "a", "a", "a", "a">>, <<"a", " ", "a">>>>

\* C30: chunk_content terminates for every content string and every pair of
\* parameters with 0 < overlap < chunk_size: the start position strictly
\* increases on every loop iteration until it reaches the end of the content.
C30_StartIncreases ==
    [][(/\ chunking.pc = "loop"
        /\ 0 < chunking.overlap
        /\ chunking.overlap < chunking.chunk_size)
          => chunking'.start > chunking.start]_vars

\* With chunk_size 6 and overlap 5 a chunk cut at a blank in its last
\* position ends 5 after its start: every iteration starts at 0 again.
C30_Witness ==
    /\ chunking.pc = "loop"
    /\ 0 < chunking.overlap
    /\ chunking.overlap < chunking.chunk_size
    /\ chunking.start = 0
    /\ Len(chunking.chunks) = MaxIterations
    /\ \A k \in 1..Len(chunking.chunks) : chunking.chunks[k] = chunking.chunks[1]

\* C23: for every pulse sequence the Manchester bit count is at most the OOK
\* bit count and the PWM bit count equals the OOK bit count; consequently
\* decode in auto mode never returns encoding pwm, and returns manchester
\* only when the OOK bit count is above 1000 while the Manchester bit count
\* is in [8,1000].
C23_BitCounts ==
    pc = "decoded" =>
        LET signal == decoded.binary_signal
            ook == Len(decode_ook(signal))
            manchester == Len(decode_manchester(signal))
            pwm == Len(decode_pwm(signal))
        IN /\ manchester <= ook
           /\ pwm = ook
           /\ decoded.encoding # "pwm"
           /\ decoded.encoding = "manchester" =>
                 /\ ook > 1000
                 /\ 8 <= manchester
                 /\ manchester <= 1000

\* 1000 level-1 samples without a transition in front of nine Manchester
\* bits: 1009 OOK and PWM bits, and the nine Manchester bits are returned.
C23_Witness ==
    /\ pc = "decoded"
    /\ decoded.encoding = "manchester"
    /\ Len(decode_pwm(decoded.binary_signal)) = 1009
    /\ Len(decode_manchester(decoded.binary_signal)) = 9
    /\ decoded.preamble_found

\* C24: every bit that decode_ook emits on the output of apply_threshold with
\* the median method is 1: the OOK threshold is the median of all sample
\* durations, which is the threshold of apply_threshold, so every level-1
\* sample counts as long.
C24_OokBitsAreOnes ==
    pc = "decoded" =>
        LET threshold2 == Median2(data.raw_pulses)
            signal == apply_threshold(data.raw_pulses)
            bits == decode_ook(signal)
        IN /\ signal = decoded.binary_signal
           /\ Median2([i \in 1..Len(signal) |-> signal[i][1]]) = threshold2
           /\ \A i \in 1..Len(signal) :
                 signal[i][2] = 1 => 2 * signal[i][1] > threshold2
           /\ \A i \in 1..Len(bits) : bits[i] = 1

\* Nine long pulses among nine short ones: nine OOK bits, all 1, returned
\* with the zeros that the hexadecimal packing appends.
C24_Witness ==
    /\ pc = "decoded"
    /\ decoded.encoding = "ook"
    /\ Len(decode_ook(decoded.binary_signal)) = 9
    /\ \E i \in 1..Len(data.raw_pulses) : 2 * data.raw_pulses[i] < Median2(data.raw_pulses)
    /\ decoded.bits = Rep(<<1>>, 9) \o <<0, 0, 0>>

\* C25: classify_signal returns signal_type Unknown if and only if the
\* capture's pulse sequence is empty: for every non-empty pulse sequence the
\* bit-length rule fires, rolling_score + fixed_score is positive, and the
\* zero-score 'insufficient data' outcome is unreachable, even when the
\* decoded bit sequence is empty.
C25_UnknownOnlyWhenEmpty ==
    pc = "classified" =>
        LET reasons == Range(classification.reasoning)
            bit_length_reasons ==
                {"Very long bit length suggests rolling code",
                 "Long bit length suggests rolling code",
                 "Shorter bit length suggests fixed code"}
        IN /\ classification.signal_type = "Unknown" <=> data.raw_pulses = <<>>
           /\ data.raw_pulses # <<>> =>
                 /\ Cardinality(reasons \cap bit_length_reasons) = 1
                 /\ classification.rolling_score + classification.fixed_score > 0
                 /\ "Insufficient data for classification" \notin reasons

\* A single pulse: no sample is above the median, nothing is decoded, and
\* the capture is still classified as a fixed code.
C25_Witness ==
    /\ pc = "classified"
    /\ data.raw_pulses # <<>>
    /\ decoded.bits = <<>>
    /\ characteristics.decoded_bits = 0
    /\ classification.signal_type = "Fixed"

\* The double num / (rolling + fixed) compared with 0.6: decided by the
\* hundredths of the scores except where the quotient of the doubles is the
\* double next to 0.6.
AboveSixTenths(confidence) ==
    LET n == Hundredths(confidence.num)
        t == Hundredths(confidence.rolling) + Hundredths(confidence.fixed)
        other == IF confidence.num = confidence.rolling
                 THEN confidence.fixed ELSE confidence.rolling
    IN 5 * n > 3 * t
       \/ (5 * n = 3 * t /\ <<confidence.num, other>> \in QuotientAboveSixTenths)

\* C26: for every classification the confidence matches the signal type:
\* Rolling and Fixed results have confidence greater than 0.6 and at most 1,
\* Uncertain results have confidence between 0.5 and 0.6 inclusive, and
\* Unknown results have confidence 0.0.
C26_ConfidenceMatchesType ==
    pc = "classified" =>
        LET confidence == classification.confidence
            n == Hundredths(confidence.num)
            t == Hundredths(confidence.rolling) + Hundredths(confidence.fixed)
        IN /\ classification.signal_type \in {"Rolling", "Fixed"} =>
                 AboveSixTenths(confidence) /\ n <= t
           /\ classification.signal_type = "Uncertain" =>
                 ~AboveSixTenths(confidence) /\ 2 * n >= t
           /\ classification.signal_type = "Unknown" =>
                 confidence = ZeroConfidence
           /\ classification.signal_type
                 \in {"Rolling", "Fixed", "Uncertain", "Unknown"}

\* A fixed-code result whose rolling score is 0: confidence exactly 1.
C26_Witness ==
    /\ pc = "classified"
    /\ classification.signal_type = "Fixed"
    /\ classification.rolling_score = 0
    /\ classification.confidence.num = classification.fixed_score

\* The place of a protocol name in the signature catalog.
CatalogIndex(name) ==
    CHOOSE i \in 1..Len(PROTOCOL_SIGNATURES) : PROTOCOL_SIGNATURES[i].name = name

\* C27: matches with equal confidence keep their catalog order in the ranked
\* list, so when several signatures share the highest confidence the
\* identified protocol is the one that appears earliest in the catalog.
C27_TiesKeepCatalogOrder ==
    (Identified /\ data.raw_pulses # <<>>) =>
        LET matches == protocol_info.matches
            top == {p \in 1..Len(matches) :
                       \A q \in 1..Len(matches) :
                           matches[q].confidence <= matches[p].confidence}
        IN /\ \A p, q \in 1..Len(matches) :
                 (p < q /\ matches[p].confidence = matches[q].confidence)
                     => CatalogIndex(matches[p].protocol)
                            < CatalogIndex(matches[q].protocol)
           /\ \A p \in top :
                 CatalogIndex(protocol_info.identified_protocol)
                     <= CatalogIndex(matches[p].protocol)

\* Three or more signatures share the highest confidence, and lower in the
\* list a match of smaller confidence comes from earlier in the catalog.
C27_Witness ==
    /\ pc = "identified"
    /\ Len(protocol_info.matches) >= 4
    /\ protocol_info.matches[1].confidence = protocol_info.matches[3].confidence
    /\ \E q \in 1..Len(protocol_info.matches) :
          /\ protocol_info.matches[q].confidence
                < protocol_info.matches[1].confidence
          /\ CatalogIndex(protocol_info.matches[q].protocol)
                < CatalogIndex(protocol_info.matches[3].protocol)

\* The places of the RAW_Data lines of a file.
RawDataLines(lines) == {i \in 1..Len(lines) : lines[i].field = "RAW_Data"}

\* C28: when a capture file contains several RAW_Data lines, parse_sub_file
\* keeps only the values of the last RAW_Data line as the pulse sequence; the
\* values of every earlier RAW_Data line are discarded, not concatenated.
C28_LastRawDataLineWins ==
    (parsed.outcome = "returned" /\ Cardinality(RawDataLines(file.lines)) >= 2) =>
        LET last == CHOOSE i \in RawDataLines(file.lines) :
                        \A j \in RawDataLines(file.lines) : j <= i
            values == RawDataOf(file.lines[last].tokens)
        IN /\ parsed.data.raw_data = values
           /\ parsed.data.raw_pulses = process_raw_data(values)

\* A file whose first RAW_Data line holds 3 -1 0 x2 12 and whose last holds
\* -2 7 has been parsed: the pulses are 2 and 7.
C28_Witness ==
    /\ parsed.outcome = "returned"
    /\ Cardinality(RawDataLines(file.lines)) >= 2
    /\ file.lines[1] = RawDataLine(<<<<"3">>, <<"-", "1">>, <<"0">>, <<"x", "2">>, <<"1", "2">>>>)
    /\ file.lines[Len(file.lines)] = RawDataLine(<<<<"-", "2">>, <<"7">>>>)
    /\ parsed.data.raw_data = <<-2, 7>>
    /\ parsed.data.raw_pulses = <<2, 7>>

\* C29: comparing a capture with itself gives an empty differences list and
\* same_device_probability 1.0 when its identified protocol is not Unknown
\* and 0.7 when it is Unknown; for every pair of captures
\* same_device_probability lies in [0, 1].
C29_SelfComparison ==
    comparison # Pending =>
        /\ data1 = data2 =>
              /\ comparison.differences = <<>>
              /\ comparison.same_device_probability =
                    IF Get(class1.protocol_info, "identified_protocol", "Unknown")
                          # "Unknown"
                    THEN 1000 ELSE 700
        /\ comparison.same_device_probability >= 0
        /\ comparison.same_device_probability <= 1000

\* A capture without pulses has been compared with itself: the protocol is
\* Unknown and the probability is 0.7.
C29_Witness ==
    /\ comparison # Pending
    /\ data1 = data2
    /\ data1.raw_pulses = <<>>
    /\ Get(class1.protocol_info, "identified_protocol", "Unknown") = "Unknown"
    /\ comparison.differences = <<>>
    /\ comparison.same_device_probability = 700

\* A capture with an identified protocol has been compared with itself.
C29_WitnessIdentified ==
    /\ comparison # Pending
    /\ data1 = data2
    /\ Get(class1.protocol_info, "identified_protocol", "Unknown") # "Unknown"
    /\ comparison.same_device_probability = 1000

\* Two captures that agree on nothing have been compared.
C29_WitnessNothingShared ==
    /\ comparison # Pending
    /\ comparison.similarities = <<>>
    /\ comparison.same_device_probability = 0

====
